---------------------------- MODULE Spec2Model ----------------------------
(***************************************************************************)
(* percentagent: inference of strftime-style format strings.               *)
(*                                                                         *)
(* The model follows src/percentagent/extract_patterns.py (TimeLocaleSet)  *)
(* and src/percentagent/guess_format.py (DateParser, _State).  Strings are *)
(* sequences of one-character strings; Python's None is the integer None.  *)
(***************************************************************************)
EXTENDS Integers, Sequences, FiniteSets, TLC

(***************************************************************************)
(* Characters and strings                                                  *)
(***************************************************************************)

None == -1

Range(f) == { f[i] : i \in DOMAIN f }

\* The characters of the model's alphabet in code point order.
CodePoints ==
    << " ", "%", "(", ")", "+", ",", "-", ".", "/",
       "0", "1", "2", "3", "4", "5", "6", "7", "8", "9", ":", ";",
       "A", "B", "C", "D", "E", "F", "G", "H", "I", "J", "K", "L", "M",
       "N", "O", "P", "Q", "R", "S", "T", "U", "V", "W", "X", "Y", "Z",
       "a", "b", "c", "d", "e", "f", "g", "h", "i", "j", "k", "l", "m",
       "n", "o", "p", "q", "r", "s", "t", "u", "v", "w", "x", "y", "z" >>

Ord(c) == CHOOSE i \in 1..Len(CodePoints) : CodePoints[i] = c

Upper == SubSeq(CodePoints, 22, 47)
Lower == SubSeq(CodePoints, 48, 73)

\* str.casefold / str.lower on one character
casefoldChar(c) ==
    IF \E i \in 1..Len(Upper) : Upper[i] = c
    THEN Lower[CHOOSE i \in 1..Len(Upper) : Upper[i] = c]
    ELSE c

casefold(s) == [ i \in 1..Len(s) |-> casefoldChar(s[i]) ]

Digits == << "0", "1", "2", "3", "4", "5", "6", "7", "8", "9" >>

isdigitChar(c) == \E i \in 1..10 : Digits[i] = c

DigitVal(c) == (CHOOSE i \in 1..10 : Digits[i] = c) - 1

\* str.isdigit
isdigit(s) == Len(s) > 0 /\ \A i \in 1..Len(s) : isdigitChar(s[i])

RECURSIVE intOf(_)
\* int(s) for a string of decimal digits
intOf(s) ==
    IF Len(s) = 0 THEN 0
    ELSE 10 * intOf(SubSeq(s, 1, Len(s) - 1)) + DigitVal(s[Len(s)])

\* s starts with p at index i (1-based)
StartsAt(s, i, p) ==
    /\ i + Len(p) - 1 <= Len(s)
    /\ \A k \in 1..Len(p) : s[i + k - 1] = p[k]

\* lexicographic order of strings by code point (Python str comparison)
RECURSIVE StrLess(_, _)
StrLess(a, b) ==
    IF Len(a) = 0 THEN Len(b) > 0
    ELSE IF Len(b) = 0 THEN FALSE
    ELSE IF a[1] # b[1] THEN Ord(a[1]) < Ord(b[1])
    ELSE StrLess(Tail(a), Tail(b))

RECURSIVE Flatten(_)
\* ''.join(seq)
Flatten(seq) ==
    IF Len(seq) = 0 THEN << >> ELSE seq[1] \o Flatten(Tail(seq))

Whitespace == { " " }

RECURSIVE CollapseWhitespace(_)
\* DateParser._whitespace.sub(" ", s): every run of whitespace becomes " "
CollapseWhitespace(s) ==
    IF Len(s) = 0 THEN << >>
    ELSE IF s[1] \in Whitespace
         THEN IF Len(s) > 1 /\ s[2] \in Whitespace
              THEN CollapseWhitespace(Tail(s))
              ELSE << " " >> \o CollapseWhitespace(Tail(s))
         ELSE << s[1] >> \o CollapseWhitespace(Tail(s))

RECURSIVE SetToSeq(_)
SetToSeq(S) ==
    IF S = {} THEN << >>
    ELSE LET x == CHOOSE x \in S : TRUE IN << x >> \o SetToSeq(S \ {x})

(***************************************************************************)
(* extract_patterns.py: TimeLocaleSet                                      *)
(***************************************************************************)

\* TimeLocaleSet._ignore, restricted to the alphabet
Ignore == { " ", "(", ")", ".", "," }

Flags == { "-", "0" }   \* of -_0^#, those in the alphabet

Letters == { CodePoints[i] : i \in 22..73 }

RECURSIVE SkipDigits(_, _)
SkipDigits(v, i) ==
    IF i <= Len(v) /\ isdigitChar(v[i]) THEN SkipDigits(v, i + 1) ELSE i

RECURSIVE SkipIgnore(_, _)
SkipIgnore(v, i) ==
    IF i <= Len(v) /\ v[i] \in Ignore THEN SkipIgnore(v, i + 1) ELSE i

\* Index of the final conversion letter of %[-_0^#]?\d*[EO]?([a-zA-Z+%])
\* when its % is at v[i]; 0 when no conversion starts there.  E and O are
\* modifiers only when a final letter follows them.
ConvEnd(v, i) ==
    IF ~(i <= Len(v) /\ v[i] = "%") THEN 0
    ELSE
      LET final(k) == k <= Len(v) /\ v[k] \in (Letters \cup {"+", "%"})
          f == IF i + 1 <= Len(v) /\ v[i + 1] \in Flags THEN i + 2 ELSE i + 1
          d == SkipDigits(v, f)
      IN  IF d <= Len(v) /\ v[d] \in {"E", "O"} /\ final(d + 1) THEN d + 1
          ELSE IF final(d) THEN d
          ELSE 0

RECURSIVE fmt_token_split(_, _, _)
\* TimeLocaleSet._fmt_token.split(v): literal, letter, literal, letter, ...
\* from index i on, lit being the literal text collected so far.
fmt_token_split(v, i, lit) ==
    IF i > Len(v) THEN << lit >>
    ELSE
      LET p == SkipIgnore(v, i)
          e == ConvEnd(v, p)
      IN  IF e # 0
          THEN << lit, << v[e] >> >> \o fmt_token_split(v, SkipIgnore(v, e + 1), << >>)
          ELSE fmt_token_split(v, i + 1, Append(lit, v[i]))

\* equivalents that stores every conversion under its own letter
equivalents_unfolded(fmt) == fmt

\* TimeLocaleSet._equivalents
equivalents(fmt) ==
    CASE fmt = <<"e">> -> <<"d">>
      [] fmt = <<"I">> -> <<"H">>
      [] fmt = <<"k">> -> <<"H">>
      [] fmt = <<"l">> -> <<"H">>
      [] fmt = <<"Y">> -> <<"y">>
      [] OTHER -> fmt


RECURSIVE splitOn(_, _, _)
\* str.split(sep) for a one-character separator; cur is the piece in progress
splitOn(s, sep, cur) ==
    IF Len(s) = 0 THEN << cur >>
    ELSE IF s[1] = sep THEN << cur >> \o splitOn(Tail(s), sep, << >>)
    ELSE splitOn(Tail(s), sep, Append(cur, s[1]))

RECURSIVE strip(_)
\* str.strip()
strip(s) ==
    IF Len(s) > 0 /\ s[1] \in Whitespace THEN strip(Tail(s))
    ELSE IF Len(s) > 0 /\ s[Len(s)] \in Whitespace THEN strip(SubSeq(s, 1, Len(s) - 1))
    ELSE s


\* TimeLocaleSet._localized_conversion: the (word, locales) pairs that one
\* constructor argument contributes; the position of the word in its list
\* is not recorded.
localized_conversion(d) ==
    UNION { { << casefold(strip(w)), e.locales >> : w \in Range(splitOn(e.v, ";", << >>)) } : e \in d }

\* TimeLocaleSet._merge_patterns
merge_patterns ==
    { { <<"a","m">>, <<"a",".","m",".">> }, { <<"p","m">>, <<"p",".","m",".">> } }

\* Short names of the timezone provider (pytz.all_timezones), those that do
\* not start with + or -.
TimezoneShortNames == { <<"U","T","C">> }

\* TimeLocaleSet.__init__: self._keywords, a function from each case-folded
\* pattern to its set of (fmt, locales) pairs.
keywordsTable(args) ==
    LET src == [ a |-> localized_conversion(args.day),
                 b |-> localized_conversion(args.mon),
                 p |-> localized_conversion(args.am_pm),
                 O |-> localized_conversion(args.alt_digits) ]
        locs(f, w) == UNION { e[2] : e \in { e2 \in src[f] : e2[1] = w } }
        has(f, w) == \E e \in src[f] : e[1] = w
        merged(w) == UNION { locs("p", w2) : w2 \in UNION { m \in merge_patterns : w \in m } }
        inMerge(w) == \E m \in merge_patterns : w \in m
        tz == { casefold(n) : n \in TimezoneShortNames }
        words == { e[1] : e \in src.a \cup src.b \cup src.p \cup src.O }
                   \cup UNION merge_patterns \cup tz
    IN  [ w \in words |->
            { << f, locs(f, w) >> : f \in { f2 \in {"a", "b", "O"} : has(f2, w) } }
            \cup (IF inMerge(w) THEN { << "p", merged(w) >> }
                  ELSE IF has("p", w) THEN { << "p", locs("p", w) >> } ELSE {})
            \cup (IF w \in tz THEN { << "Z", {} >> } ELSE {}) ]

\* TimeLocaleSet._global_prefixes and _global_suffixes
global_prefixes ==
    { << <<":">>, {"M", "S"} >>, << <<"/">>, {"C", "y", "m", "d"} >>,
      << <<"-">>, {"C", "y", "m", "d"} >>, << <<"u","t","c">>, {"z"} >>,
      << <<"t">>, {"H"} >> }

global_suffixes ==
    { << <<":">>, {"H", "M"} >>, << <<"/">>, {"y", "m", "d"} >>,
      << <<"-">>, {"y", "m", "d"} >>, << <<"t">>, {"d"} >> }

\* formatContext that also records the context of %a, %b and %p
formatContext_all(formats, side) ==
    UNION { LET tokens == fmt_token_split(e.v, 1, << >>)
            IN  { << casefold(tokens[2 * k + side]),
                     equivalents(tokens[2 * k])[1], e.locales >> :
                  k \in { k2 \in 1..((Len(tokens) - 1) \div 2) :
                            tokens[2 * k2 + side] # << >> } }
          : e \in formats }

\* The (pattern, fmt, locales) triples the sample formats contribute to the
\* prefixes (side = -1) or suffixes (side = 1) table: the loop over
\* zip(tokens, tokens) of TimeLocaleSet.__init__.
formatContext(formats, side) ==
    UNION { LET tokens == fmt_token_split(e.v, 1, << >>)
            IN  { << casefold(tokens[2 * k + side]),
                     equivalents(tokens[2 * k])[1], e.locales >> :
                  k \in { k2 \in 1..((Len(tokens) - 1) \div 2) :
                            /\ casefold(tokens[2 * k2]) \notin { <<"a">>, <<"b">>, <<"p">> }
                            /\ tokens[2 * k2 + side] # << >> } }
          : e \in formats }

\* contextTable that leaves the global patterns out
contextTable_local(fromFormats, global) ==
    [ w \in { e[1] : e \in fromFormats } |->
        { << f, UNION { e[3] : e \in { e2 \in fromFormats : e2[1] = w /\ e2[2] = f } } >> :
          f \in { e[2] : e \in { e2 \in fromFormats : e2[1] = w } } } ]

\* A prefixes or suffixes table: what the formats give, then each global
\* pattern replaces the entry of its string.
contextTable(fromFormats, global) ==
    LET gkeys == { g[1] : g \in global }
        keys == { e[1] : e \in fromFormats } \cup gkeys
    IN  [ w \in keys |->
            IF w \in gkeys
            THEN { << f, {} >> : f \in (CHOOSE g \in global : g[1] = w)[2] }
            ELSE { << f, UNION { e[3] : e \in { e2 \in fromFormats : e2[1] = w /\ e2[2] = f } } >> :
                   f \in { e[2] : e \in { e2 \in fromFormats : e2[1] = w } } } ]

\* TimeLocaleSet(formats, day, mon, am_pm, alt_digits)
TimeLocaleSet(args) ==
    [ keywords |-> keywordsTable(args),
      prefixes |-> contextTable(formatContext(args.formats, 0 - 1), global_prefixes),
      suffixes |-> contextTable(formatContext(args.formats, 1), global_suffixes) ]

\* dict(table.get(match, ())) as a function from fmt to locales
tableGet(table, match) ==
    IF match \in DOMAIN table
    THEN [ f \in { e[1] : e \in table[match] } |->
             (CHOOSE e \in table[match] : e[1] = f)[2] ]
    ELSE << >>

(***************************************************************************)
(* guess_format.py: DateParser                                             *)
(***************************************************************************)

\* An optional set (None or a set of locales): << >> is None, << S >> is S.
NoneSet == << >>
Some(S) == << S >>

\* DateParser.__init__: the parser owns its locale set and the strings of
\* its compiled regular expression.
DateParser(locale_set) ==
    [ locale_set |-> locale_set,
      compiled |-> DOMAIN locale_set.prefixes \cup DOMAIN locale_set.keywords
                     \cup DOMAIN locale_set.suffixes ]

\* Length of the match of (\d{1,2}|[+-]\d{4}|strings...) at s[i], 0 if none.
\* The strings are tried in reverse sorted order, ignoring case.
MatchLen(strings, s, i) ==
    LET digitAt(k) == k <= Len(s) /\ isdigitChar(s[k])
        cands == { p \in strings : StartsAt(casefold(s), i, p) }
    IN  IF digitAt(i) THEN (IF digitAt(i + 1) THEN 2 ELSE 1)
        ELSE IF s[i] \in {"+", "-"} /\ \A k \in (i + 1)..(i + 4) : digitAt(k) THEN 5
        ELSE IF cands # {}
             THEN Len(CHOOSE p \in cands : \A q \in cands : q = p \/ StrLess(q, p))
             ELSE 0

RECURSIVE compiled_split(_, _, _, _)
\* self.compiled.split(s): literal, match, literal, ..., literal
compiled_split(strings, s, i, lit) ==
    IF i > Len(s) THEN << lit >>
    ELSE CHOOSE r \in
           { IF x.n > 0
             THEN << x.lit, SubSeq(s, x.i, x.i + x.n - 1) >>
                    \o compiled_split(strings, s, x.i + x.n, << >>)
             ELSE compiled_split(strings, s, x.i + 1, Append(x.lit, s[x.i]))
             : x \in { [ i |-> i, lit |-> lit, n |-> MatchLen(strings, s, i) ] } } : TRUE

\* segments[::2] and segments[1::2]
EvenSlice(segments) == [ k \in 1..((Len(segments) + 1) \div 2) |-> segments[2 * k - 1] ]
OddSlice(segments) == [ k \in 1..(Len(segments) \div 2) |-> segments[2 * k] ]

\* _legal_number that lets a month go up to 13
_legal_number_m13(prefix, value, locales) ==
    LET legal == {"C", "y"}
                 \cup (IF value <= 60 THEN {"S"} ELSE {})
                 \cup (IF value <= 59 THEN {"M"} ELSE {})
                 \cup (IF value <= 23 THEN {"H"} ELSE {})
                 \cup (IF 1 <= value /\ value <= 31 THEN {"d"} ELSE {})
                 \cup (IF 1 <= value /\ value <= 13 THEN {"m"} ELSE {})
    IN  { << Append(prefix, fmt), value, locales >> : fmt \in legal }

\* DateParser._legal_number: the (fmt, value, locales) triples of a number
_legal_number(prefix, value, locales) ==
    LET legal == {"C", "y"}
                 \cup (IF value <= 60 THEN {"S"} ELSE {})
                 \cup (IF value <= 60 /\ value <= 59 THEN {"M"} ELSE {})
                 \cup (IF value <= 60 /\ value <= 59 /\ value <= 23 THEN {"H"} ELSE {})
                 \cup (IF value <= 60 /\ value <= 59 /\ 1 <= value /\ value <= 31 THEN {"d"} ELSE {})
                 \cup (IF value <= 60 /\ value <= 59 /\ 1 <= value /\ value <= 31 /\ value <= 12
                       THEN {"m"} ELSE {})
    IN  { << Append(prefix, fmt), value, locales >> : fmt \in legal }

\* The value carried by a %z assignment is the matched text ("+0800"); the
\* model codes it as a number: 100000 for "+", 110000 for "-", plus the digits.
OffsetCode(keyword) ==
    100000 + (IF keyword[1] = "-" THEN 10000 ELSE 0) + intOf(Tail(keyword))

\* DateParser._lookup_keyword.  The entries of the keywords table are
\* (fmt, locales) pairs; unpacking one into (fmt, value, locales) raises
\* ValueError.
_lookup_keyword(keywords, raw) ==
    LET keyword == casefold(raw)
        found == IF keyword \in DOMAIN keywords THEN keywords[keyword] ELSE {}
    IN  IF found # {}
        THEN IF \E e \in found : Len(e) # 3
             THEN [ raised |-> TRUE, ret |-> {} ]
             ELSE [ raised |-> FALSE,
                    ret |-> UNION { IF e[1] = "O"
                                    THEN _legal_number(<<"%", "O">>, e[2], Some(e[3]))
                                    ELSE { << <<"%", e[1]>>, e[2], Some(e[3]) >> } : e \in found } ]
        ELSE IF keyword[1] \in {"+", "-"}
        THEN [ raised |-> FALSE,
               ret |-> IF isdigit(Tail(keyword))
                       THEN { << <<"%", "z">>, OffsetCode(keyword), NoneSet >> }
                       ELSE {} ]
        ELSE IF isdigit(keyword)
        THEN [ raised |-> FALSE, ret |-> _legal_number(<<"%">>, intOf(keyword), NoneSet) ]
        ELSE [ raised |-> FALSE, ret |-> {} ]

\* _optimistic_score that counts the prefix hint alone
_optimistic_score_prefix(assignment) ==
    IF assignment.prefix # NoneSet THEN 1 ELSE 0

\* DateParser._optimistic_score
_optimistic_score(assignment) ==
    1 + (IF assignment.prefix # NoneSet THEN 1 ELSE 0)
      + (IF assignment.suffix # NoneSet THEN 1 ELSE 0)

\* _DateTime._fields
Fields == << "C", "y", "m", "d", "a", "H", "M", "S", "p", "Z" >>
FieldSet == Range(Fields)

\* _DateTime.empty
DateTime_empty == [ c \in FieldSet |-> None ]

\* _State._min_date_formats, _all_date_formats, _min_time_formats,
\* _all_time_formats
min_date_formats == {"y", "m", "d"}
all_date_formats == min_date_formats \cup {"C", "a"}
min_time_formats == {"H", "M"}
all_time_formats == min_time_formats \cup {"S", "p", "Z"}

\* _position_constraints and _value_constraints: (name, required) in the
\* order they are appended; value constraints also carry revisit.
position_constraints ==
    << [ f |-> "month_near_day", required |-> {"m", "d"} ],
       [ f |-> "century_then_year", required |-> {"C", "y"} ],
       [ f |-> "hour_then_minute", required |-> {"H", "M"} ],
       [ f |-> "minute_then_second", required |-> {"M", "S"} ] >>

value_constraints ==
    << [ f |-> "valid_day_of_month", required |-> {"m", "d"}, revisit |-> {"C", "y"} ],
       [ f |-> "valid_12_hour_clock", required |-> {"H", "p"}, revisit |-> {} ] >>

\* The category of a conversion: its last letter, b counted as m, z as Z
CategoryOf(fmt) ==
    LET c == fmt[Len(fmt)]
    IN  IF c = "b" THEN "m" ELSE IF c = "z" THEN "Z" ELSE c

\* sorted(seq, key=...), a stable sort, for a sequence of records with an
\* integer field key: the element at index i goes to the place that counts
\* the elements that sort before it.
StableSort(seq) ==
    LET n == Len(seq)
        before(j, i) == seq[j].key < seq[i].key \/ (seq[j].key = seq[i].key /\ j < i)
        place(i) == Cardinality({ j \in 1..n : before(j, i) }) + 1
    IN  [ r \in 1..n |-> seq[CHOOSE i \in 1..n : place(i) = r] ]

\* parse, lines 95-124: the assignments of every category, in input order.
\* keyword[idx + 1] is the result of _lookup_keyword for raw[idx + 1].
BuildGroups(locale_set, raw, keyword) ==
    LET n == Len(raw)
        case == [ k \in 1..n |-> casefold(raw[k]) ]
        prefix0(idx) == IF idx = 0 THEN << >> ELSE tableGet(locale_set.prefixes, case[idx])
        suffixOf(idx) == IF idx = n - 1 THEN << >> ELSE tableGet(locale_set.suffixes, case[idx + 2])
        \* if "y" in prefix: prefix["C"] = prefix["y"] + prefix.get("C", ())
        prefixOf(idx) ==
            LET p == prefix0(idx)
            IN  IF "y" \in DOMAIN p
                THEN [ f \in DOMAIN p \cup {"C"} |->
                         IF f = "C" THEN p["y"] \cup (IF "C" \in DOMAIN p THEN p["C"] ELSE {})
                         ELSE p[f] ]
                ELSE p
        get(d, f) == IF f \in DOMAIN d THEN Some(d[f]) ELSE NoneSet
        assignment(idx, k) ==
            [ fmt |-> k[1], pos |-> idx, value |-> k[2], locales |-> k[3],
              prefix |-> get(prefixOf(idx), k[1][Len(k[1])]),
              suffix |-> get(suffixOf(idx), k[1][Len(k[1])]) ]
        ofCategory(idx, c) == SetToSeq({ assignment(idx, k) : k \in { k2 \in keyword[idx + 1] : CategoryOf(k2[1]) = c } })
    IN  [ c \in FieldSet |-> Flatten([ k \in 1..n |-> ofCategory(k - 1, c) ]) ]

\* parse, lines 126-134: a date or a time that cannot be complete is dropped
ClearUnsatisfiable(groups) ==
    LET noDate == \E c \in min_date_formats : groups[c] = << >>
        noTime == \E c \in min_time_formats : groups[c] = << >>
    IN  [ c \in FieldSet |->
                 IF (c \in all_date_formats /\ noDate) \/ (c \in all_time_formats /\ noTime)
                 THEN << >> ELSE groups[c] ]

\* SortGroup that puts the lowest optimistic score first
SortGroup_ascending(group, choices_per_position) ==
    LET keyed == [ k \in 1..Len(group) |->
                          [ key |-> _optimistic_score(group[k]) * 1000
                                      + choices_per_position[group[k].pos + 1],
                            item |-> group[k] ] ]
        sorted == StableSort(keyed)
    IN  [ k \in 1..Len(sorted) |-> sorted[k].item ]

\* parse, lines 136-140: each group sorted by (-optimistic score, number of
\* choices at the position)
SortGroup(group, choices_per_position) ==
    LET keyed == [ k \in 1..Len(group) |->
                          [ key |-> (0 - _optimistic_score(group[k])) * 1000
                                      + choices_per_position[group[k].pos + 1],
                            item |-> group[k] ] ]
        sorted == StableSort(keyed)
    IN  [ k \in 1..Len(sorted) |-> sorted[k].item ]

\* parse, lines 142-165: the non-empty groups with their constraints, sorted
\* by (not required, number of options)
OrderedGroups(groups) ==
    LET required_formats == min_date_formats \cup min_time_formats
        item(c) ==
            [ key |-> (IF c \in required_formats THEN 0 ELSE 1000) + Len(groups[c]),
              item |-> [ category |-> c,
                         options |-> groups[c],
                         position |-> SelectSeq(position_constraints, LAMBDA pc : c \in pc.required),
                         value |-> SelectSeq(value_constraints,
                                             LAMBDA vc : c \in vc.required \/ c \in vc.revisit) ] ]
        present == SelectSeq(Fields, LAMBDA c : groups[c] # << >>)
        sorted == StableSort([ k \in 1..Len(present) |-> item(present[k]) ])
    IN  [ k \in 1..Len(sorted) |-> sorted[k].item ]

RECURSIVE ConstrainGroups(_)
\* parse, lines 171-184: after a category come the categories its
\* constraints mention
ConstrainGroups(groups) ==
    IF Len(groups) = 0 THEN << >>
    ELSE LET g == groups[1]
             rest == Tail(groups)
             required == UNION ({ g.position[k].required : k \in 1..Len(g.position) }
                                \cup { g.value[k].required : k \in 1..Len(g.value) })
             front == SelectSeq(rest, LAMBDA x : x.category \in required)
             back == SelectSeq(rest, LAMBDA x : x.category \notin required)
         IN  << g >> \o ConstrainGroups(front \o back)

(***************************************************************************)
(* guess_format.py: constraints                                            *)
(***************************************************************************)

\* range(a, b)
PyRange(a, b) == { i \in a..(b - 1) : TRUE }

\* month_near_day that lets any position between month and day be converted
month_near_day_apart(pos) == [ none |-> FALSE, excl |-> {} ]

\* A position constraint applied to pos: [none |-> TRUE] for None, else the
\* positions that must stay literal.
month_near_day(pos) ==
    [ none |-> FALSE,
      excl |-> IF pos.m < pos.d THEN PyRange(pos.m + 1, pos.d) ELSE PyRange(pos.d + 1, pos.m) ]

century_then_year(pos) ==
    IF pos.C + 1 # pos.y THEN [ none |-> TRUE, excl |-> {} ] ELSE [ none |-> FALSE, excl |-> {} ]

\* hour_then_minute that accepts the minute before the hour
hour_then_minute_unordered(pos) ==
    [ none |-> FALSE, excl |-> PyRange(pos.H + 1, pos.M) ]

hour_then_minute(pos) ==
    IF pos.H > pos.M THEN [ none |-> TRUE, excl |-> {} ]
    ELSE [ none |-> FALSE, excl |-> PyRange(pos.H + 1, pos.M) ]

minute_then_second(pos) ==
    IF pos.M > pos.S THEN [ none |-> TRUE, excl |-> {} ]
    ELSE [ none |-> FALSE, excl |-> PyRange(pos.M + 1, pos.S) ]

ApplyPosition(f, pos) ==
    CASE f = "month_near_day" -> month_near_day(pos)
      [] f = "century_then_year" -> century_then_year(pos)
      [] f = "hour_then_minute" -> hour_then_minute(pos)
      [] f = "minute_then_second" -> minute_then_second(pos)

\* valid_day_of_month that takes a missing century for one not divisible by 4
valid_day_of_month_no_century(value) ==
    LET month_length ==
          IF value.m = 2
          THEN IF value.y # None /\ (value.y % 4) # 0 THEN 28
               ELSE IF value.y # None /\ value.y = 0 /\ (value.C = None \/ (value.C % 4) # 0) THEN 28
               ELSE 29
          ELSE 30 + (IF ((value.m % 2) = 1) = (value.m < 8) THEN 1 ELSE 0)
    IN  value.d <= month_length

\* valid_day_of_month: an upper bound on the length of the month
valid_day_of_month(value) ==
    LET month_length ==
          IF value.m = 2
          THEN IF value.y # None /\ (value.y % 4) # 0 THEN 28
               ELSE IF value.y # None /\ value.y = 0 /\ value.C # None /\ (value.C % 4) # 0 THEN 28
               ELSE 29
          ELSE 30 + (IF ((value.m % 2) = 1) = (value.m < 8) THEN 1 ELSE 0)
    IN  value.d <= month_length

valid_12_hour_clock(value) == 1 <= value.H /\ value.H <= 12

ApplyValue(f, value) ==
    CASE f = "valid_day_of_month" -> valid_day_of_month(value)
      [] f = "valid_12_hour_clock" -> valid_12_hour_clock(value)

(***************************************************************************)
(* datetime                                                                *)
(***************************************************************************)

IsLeap(year) == (year % 4 = 0) /\ ((year % 100 # 0) \/ (year % 400 = 0))

DaysInMonth(year, month) ==
    IF month = 2 THEN (IF IsLeap(year) THEN 29 ELSE 28)
    ELSE IF month \in {4, 6, 9, 11} THEN 30 ELSE 31

\* datetime.date(year, month, day) does not raise ValueError
DateOk(year, month, day) ==
    /\ 1 <= year /\ year <= 9999
    /\ 1 <= month /\ month <= 12
    /\ 1 <= day /\ day <= DaysInMonth(year, month)

\* datetime.time(hour, minute, second) does not raise ValueError
TimeOk(hour, minute, second) ==
    /\ 0 <= hour /\ hour <= 23
    /\ 0 <= minute /\ minute <= 59
    /\ 0 <= second /\ second <= 59

RECURSIVE DaysBeforeMonth(_, _)
DaysBeforeMonth(year, month) ==
    IF month = 1 THEN 0 ELSE DaysBeforeMonth(year, month - 1) + DaysInMonth(year, month - 1)

\* date.toordinal()
ToOrdinal(year, month, day) ==
    LET y == year - 1
    IN  y * 365 + (y \div 4) - (y \div 100) + (y \div 400) + DaysBeforeMonth(year, month) + day

\* date.weekday(): Monday is 0
Weekday(year, month, day) == (ToOrdinal(year, month, day) + 6) % 7

(***************************************************************************)
(* guess_format.py: _State                                                 *)
(***************************************************************************)

\* The locale names that occur in the model's locale sets
Locales == { "eu_ES", "en_US" }

\* A Counter over locales; a key that is absent counts 0.
Counter_empty == [ l \in Locales |-> 0 ]

\* A _State's satisfied field is a reference to a Counter.  The Counter() of
\* _State.empty is one module-level object, shared by every call
\* (shared = TRUE: its contents are the module-level Counter glob); any
\* other Counter is owned by the state that created it.
SharedRef == [ shared |-> TRUE, c |-> Counter_empty ]

Deref(ref, glob) == IF ref.shared THEN glob ELSE ref.c

\* Counter.update(hint)
CounterUpdate(c, hint) == [ l \in Locales |-> IF l \in hint THEN c[l] + 1 ELSE c[l] ]

\* CopyUpdate without the copy: satisfied.update(hint) on the Counter the
\* state refers to
CopyUpdate_in_place(ref, hint, glob) ==
    IF ref.shared
    THEN [ ref |-> ref, glob |-> CounterUpdate(glob, hint) ]
    ELSE [ ref |-> [ shared |-> FALSE, c |-> CounterUpdate(ref.c, hint) ], glob |-> glob ]

\* satisfied = satisfied.copy(); satisfied.update(hint): the new reference
\* and the contents of the module-level Counter afterwards
CopyUpdate(ref, hint, glob) ==
    [ ref |-> [ shared |-> FALSE, c |-> CounterUpdate(Deref(ref, glob), hint) ],
      glob |-> glob ]

\* _State.empty without its remaining_groups and unconverted
State_empty ==
    [ remaining_groups |-> << >>,
      date_present |-> FALSE,
      time_present |-> FALSE,
      unconverted |-> {},
      pos |-> DateTime_empty,
      value |-> DateTime_empty,
      fmts |-> [ c \in FieldSet |-> << >> ],
      required_locales |-> NoneSet,
      pending_hints |-> << >>,
      satisfied |-> SharedRef,
      globally_satisfied |-> 0 ]

SetMax(S) == CHOOSE x \in S : \A y \in S : y <= x

\* Truth value of an optional set: None and the empty set are false
Truthy(o) == o # NoneSet /\ o[1] # {}

\* score that builds the set of best locales also when nothing is satisfied
score_unguarded(self, glob) ==
    LET cnt == Deref(self.satisfied, glob)
        satisfied == { l \in Locales :
                         /\ cnt[l] > 0
                         /\ (Truthy(self.required_locales) => l \in self.required_locales[1]) }
        locally_satisfied == IF satisfied # {} THEN SetMax({ cnt[l] : l \in satisfied }) ELSE 0
    IN  [ quality |-> self.globally_satisfied + locally_satisfied,
          locales |-> Some({ l \in satisfied : cnt[l] = locally_satisfied }) ]

\* _State.score: (quality, locales)
score(self, glob) ==
    LET cnt == Deref(self.satisfied, glob)
        satisfied == { l \in Locales :
                         /\ cnt[l] > 0
                         /\ (Truthy(self.required_locales) => l \in self.required_locales[1]) }
        locally_satisfied == IF satisfied # {} THEN SetMax({ cnt[l] : l \in satisfied }) ELSE 0
        satisfied_locales ==
            IF satisfied # {}
            THEN Some({ l \in satisfied : cnt[l] = locally_satisfied })
            ELSE self.required_locales
    IN  [ quality |-> self.globally_satisfied + locally_satisfied,
          locales |-> satisfied_locales ]

RECURSIVE ResolveHints_keep(_, _, _, _)
\* ResolveHints that keeps a hint whose position holds a conversion
ResolveHints_keep(pending_hints, exclude, pos, acc) ==
    IF Len(pending_hints) = 0 THEN acc
    ELSE LET h == pending_hints[1]
             next ==
               IF h.idx = None \/ h.idx \in exclude
               THEN IF h.hint # {}
                    THEN LET u == CopyUpdate(acc.satisfied, h.hint, acc.glob)
                         IN  [ acc EXCEPT !.satisfied = u.ref, !.glob = u.glob ]
                    ELSE [ acc EXCEPT !.globally_satisfied = @ + 1 ]
               ELSE [ acc EXCEPT !.deferred_hints = Append(@, h) ]
         IN  ResolveHints_keep(Tail(pending_hints), exclude, pos, next)

RECURSIVE ResolveHints(_, _, _, _)
\* children, lines 433-445: the pending hints against the positions now
\* literal (exclude) and now converted (pos); acc carries satisfied, glob,
\* globally_satisfied and deferred_hints.
ResolveHints(pending_hints, exclude, pos, acc) ==
    IF Len(pending_hints) = 0 THEN acc
    ELSE LET h == pending_hints[1]
             next ==
               IF h.idx = None \/ h.idx \in exclude
               THEN IF h.hint # {}
                    THEN LET u == CopyUpdate(acc.satisfied, h.hint, acc.glob)
                         IN  [ acc EXCEPT !.satisfied = u.ref, !.glob = u.glob ]
                    ELSE [ acc EXCEPT !.globally_satisfied = @ + 1 ]
               ELSE IF h.idx \notin Range(pos)
               THEN [ acc EXCEPT !.deferred_hints = Append(@, h) ]
               ELSE acc
         IN  ResolveHints(Tail(pending_hints), exclude, pos, next)

\* Whether a constraint applies when category is decided in state self:
\* all the other categories it needs are assigned, and category is not.
Applies(self, category, required) ==
    \A c \in required : (c = category) = (self.pos[c] = None)

\* DatePresent that does not commit the subtree to a date
DatePresent_uncommitted(self, category) == self.date_present

\* children, lines 365-370: a child that assigns category commits its
\* subtree to a date, or else to a time
DatePresent(self, category) == self.date_present \/ category \in all_date_formats

\* TimePresent that does not commit the subtree to a time
TimePresent_uncommitted(self, category) == self.time_present

TimePresent(self, category) == self.time_present \/ category \notin all_date_formats

\* children, lines 390-461: the child for one option.  ok is FALSE when the
\* option is passed over (continue).
Option(self, assignment, glob) ==
    LET g == self.remaining_groups[1]
        category == g.category
        pcs == SelectSeq(g.position, LAMBDA x : Applies(self, category, x.required))
        vcs == SelectSeq(g.value, LAMBDA x : Applies(self, category, x.required))
        taken == assignment.pos \in self.unconverted \/ assignment.pos \in Range(self.pos)
        both == Truthy(assignment.locales) /\ Truthy(self.required_locales)
        inter == IF both THEN assignment.locales[1] \cap self.required_locales[1] ELSE {}
        locales == IF both THEN Some(inter)
                   ELSE IF Truthy(assignment.locales) THEN assignment.locales
                   ELSE self.required_locales
        afterCentury == self.pos.C # None /\ assignment.pos - 1 = self.pos.C /\ category # "y"
        pos == [ self.pos EXCEPT ![category] = assignment.pos ]
        results == [ k \in 1..Len(pcs) |-> ApplyPosition(pcs[k].f, pos) ]
        anyNone == \E k \in 1..Len(pcs) : results[k].none
        excl == UNION { results[k].excl : k \in 1..Len(pcs) }
        value == [ self.value EXCEPT ![category] = assignment.value ]
        valueOk == \A k \in 1..Len(vcs) : ApplyValue(vcs[k].f, value)
        fmts == [ self.fmts EXCEPT ![category] = assignment.fmt ]
        pending_hints ==
            self.pending_hints \o << [ idx |-> None, hint |-> {} ] >>
              \o (IF assignment.prefix # NoneSet
                  THEN << [ idx |-> assignment.pos - 1, hint |-> assignment.prefix[1] ] >> ELSE << >>)
              \o (IF assignment.suffix # NoneSet
                  THEN << [ idx |-> assignment.pos + 1, hint |-> assignment.suffix[1] ] >> ELSE << >>)
        exclude == self.unconverted \cup excl
        r == ResolveHints(pending_hints, exclude, pos,
                          [ satisfied |-> self.satisfied, glob |-> glob,
                            globally_satisfied |-> self.globally_satisfied,
                            deferred_hints |-> << >> ])
    IN  IF taken \/ (both /\ inter = {}) \/ afterCentury THEN [ ok |-> FALSE ]
        ELSE IF anyNone \/ (excl \cap Range(pos)) # {} THEN [ ok |-> FALSE ]
        ELSE IF ~valueOk THEN [ ok |-> FALSE ]
        ELSE [ ok |-> TRUE,
               glob |-> r.glob,
               new |-> [ remaining_groups |-> Tail(self.remaining_groups),
                         date_present |-> DatePresent(self, category),
                         time_present |-> TimePresent(self, category),
                         unconverted |-> exclude,
                         pos |-> pos,
                         value |-> value,
                         fmts |-> fmts,
                         required_locales |-> locales,
                         pending_hints |-> r.deferred_hints,
                         satisfied |-> r.satisfied,
                         globally_satisfied |-> r.globally_satisfied ] ]

\* children, lines 463-490: the child that skips the category
Skip(self) ==
    LET category == self.remaining_groups[1].category
        rest == Tail(self.remaining_groups)
    IN  IF category \in min_date_formats
        THEN IF self.date_present THEN [ ok |-> FALSE ]
             ELSE [ ok |-> TRUE,
                    new |-> [ self EXCEPT !.remaining_groups =
                                SelectSeq(rest, LAMBDA x : x.category \notin all_date_formats) ] ]
        ELSE IF category \in min_time_formats
        THEN IF self.time_present THEN [ ok |-> FALSE ]
             ELSE [ ok |-> TRUE,
                    new |-> [ self EXCEPT !.remaining_groups =
                                SelectSeq(rest, LAMBDA x : x.category \notin all_time_formats) ] ]
        ELSE [ ok |-> TRUE, new |-> [ self EXCEPT !.remaining_groups = rest ] ]

\* The k-th step of the generator self.children(): option k, or the skip
\* after the last option.
Child(self, k, glob) ==
    LET options == self.remaining_groups[1].options
    IN  IF k <= Len(options) THEN Option(self, options[k], glob)
        ELSE LET sk == Skip(self)
             IN  IF sk.ok THEN [ ok |-> TRUE, glob |-> glob, new |-> sk.new ] ELSE sk

\* next(gen) for a generator [state, next]: the index of the first step from
\* gen.next on that yields, 0 when the generator is exhausted
NextYield(gen, glob) ==
    LET last == Len(gen.state.remaining_groups[1].options) + 1
        ys == { k \in gen.next..last : Child(gen.state, k, glob).ok }
    IN  IF ys = {} THEN 0 ELSE CHOOSE k \in ys : \A k2 \in ys : k <= k2

RECURSIVE FinalHints(_, _, _)
\* final_score, lines 494-502: every hint still pending is satisfied
FinalHints(pending_hints, self, glob) ==
    IF Len(pending_hints) = 0 THEN [ state |-> self, glob |-> glob ]
    ELSE LET h == pending_hints[1]
         IN  IF h.hint # {}
             THEN LET u == CopyUpdate(self.satisfied, h.hint, glob)
                  IN  FinalHints(Tail(pending_hints), [ self EXCEPT !.satisfied = u.ref ], u.glob)
             ELSE FinalHints(Tail(pending_hints),
                             [ self EXCEPT !.globally_satisfied = @ + 1 ], glob)

\* _State.final_score: the state it scores, and the module-level Counter
final_score(self, glob) == FinalHints(self.pending_hints, self, glob)

RECURSIVE TryCenturies(_, _)
\* valid, lines 529-534
TryCenturies(centuries, value) ==
    IF Len(centuries) = 0 THEN [ kind |-> "None" ]
    ELSE LET year == centuries[1] * 100 + value.y
         IN  IF value.y = None \/ value.m = None \/ value.d = None
                \/ ~DateOk(year, value.m, value.d)
             THEN [ kind |-> "raise" ]
             ELSE IF value.a = None \/ (Weekday(year, value.m, value.d) + 1) % 7 = value.a
             THEN [ kind |-> "date", year |-> year, month |-> value.m, day |-> value.d ]
             ELSE TryCenturies(Tail(centuries), value)

NoDate == [ year |-> None, month |-> None, day |-> None ]
NoTime == [ hour |-> None, minute |-> None, second |-> None ]

\* valid whose two-digit years turn to the century 19 from 68 on
valid_pivot_67(self) ==
    LET v == self.value
        centuries ==
            IF v.C # None THEN << v.C >>
            ELSE IF v.y = 0 /\ v.m = 2 /\ v.d = 29 THEN << 20 >>
            ELSE IF v.a # None THEN << 20, 19, 21, 18 >>
            ELSE IF v.y < 68 THEN << 20 >> ELSE << 19 >>
        d == IF self.date_present THEN TryCenturies(centuries, v) ELSE [ kind |-> "absent" ]
        H == IF v.p # None THEN (v.H % 12) + 12 * v.p ELSE v.H
        S == IF v.S = None \/ v.S = 0 THEN 0 ELSE v.S
        t == IF ~self.time_present THEN [ kind |-> "absent" ]
             ELSE IF v.H = None \/ v.M = None \/ ~TimeOk(H, v.M, S) THEN [ kind |-> "raise" ]
             ELSE [ kind |-> "time", hour |-> H, minute |-> v.M, second |-> S ]
        dd == IF d.kind = "date" THEN [ year |-> d.year, month |-> d.month, day |-> d.day ] ELSE NoDate
        tt == IF t.kind = "time" THEN [ hour |-> t.hour, minute |-> t.minute, second |-> t.second ] ELSE NoTime
    IN  IF d.kind = "raise" THEN [ kind |-> "raise", date |-> NoDate, time |-> NoTime ]
        ELSE IF d.kind = "None" THEN [ kind |-> "None", date |-> NoDate, time |-> NoTime ]
        ELSE IF t.kind = "raise" THEN [ kind |-> "raise", date |-> NoDate, time |-> NoTime ]
        ELSE IF d.kind = "date" /\ t.kind = "time" THEN [ kind |-> "datetime", date |-> dd, time |-> tt ]
        ELSE IF d.kind = "date" THEN [ kind |-> "date", date |-> dd, time |-> NoTime ]
        ELSE IF t.kind = "time" THEN [ kind |-> "time", date |-> NoDate, time |-> tt ]
        ELSE [ kind |-> "None", date |-> NoDate, time |-> NoTime ]

\* _State.valid: kind is "None", "raise" (the datetime constructor raises),
\* "date", "time" or "datetime"
valid(self) ==
    LET v == self.value
        centuries ==
            IF v.C # None THEN << v.C >>
            ELSE IF v.y = 0 /\ v.m = 2 /\ v.d = 29 THEN << 20 >>
            ELSE IF v.a # None THEN << 20, 19, 21, 18 >>
            ELSE IF v.y <= 68 THEN << 20 >> ELSE << 19 >>
        d == IF self.date_present THEN TryCenturies(centuries, v) ELSE [ kind |-> "absent" ]
        H == IF v.p # None THEN (v.H % 12) + 12 * v.p ELSE v.H
        S == IF v.S = None \/ v.S = 0 THEN 0 ELSE v.S
        t == IF ~self.time_present THEN [ kind |-> "absent" ]
             ELSE IF v.H = None \/ v.M = None \/ ~TimeOk(H, v.M, S) THEN [ kind |-> "raise" ]
             ELSE [ kind |-> "time", hour |-> H, minute |-> v.M, second |-> S ]
        dd == IF d.kind = "date" THEN [ year |-> d.year, month |-> d.month, day |-> d.day ] ELSE NoDate
        tt == IF t.kind = "time" THEN [ hour |-> t.hour, minute |-> t.minute, second |-> t.second ] ELSE NoTime
    IN  IF d.kind = "raise" THEN [ kind |-> "raise", date |-> NoDate, time |-> NoTime ]
        ELSE IF d.kind = "None" THEN [ kind |-> "None", date |-> NoDate, time |-> NoTime ]
        ELSE IF t.kind = "raise" THEN [ kind |-> "raise", date |-> NoDate, time |-> NoTime ]
        ELSE IF d.kind = "date" /\ t.kind = "time" THEN [ kind |-> "datetime", date |-> dd, time |-> tt ]
        ELSE IF d.kind = "date" THEN [ kind |-> "date", date |-> dd, time |-> NoTime ]
        ELSE IF t.kind = "time" THEN [ kind |-> "time", date |-> NoDate, time |-> tt ]
        ELSE [ kind |-> "None", date |-> NoDate, time |-> NoTime ]

\* Heuristic that leaves out what the remaining groups can still add
Heuristic_pending_only(state) == Len(state.pending_hints)

\* parse, lines 213-221: the bound on what the remaining groups can add
Heuristic(state) ==
    LET assigned == (state.unconverted \cup Range(state.pos)) \ { None }
        best(group) ==
            LET free == SelectSeq(group.options, LAMBDA a : a.pos \notin assigned)
            IN  IF Len(free) = 0 THEN 0 ELSE _optimistic_score(free[1])
        RECURSIVE Sum(_)
        Sum(groups) == IF Len(groups) = 0 THEN 0 ELSE best(groups[1]) + Sum(Tail(groups))
    IN  Len(state.pending_hints) + Sum(state.remaining_groups)

RECURSIVE Replace(_, _, _)
\* str.replace(old, new)
Replace(s, old, new) ==
    IF Len(s) = 0 THEN << >>
    ELSE IF StartsAt(s, 1, old) THEN new \o Replace(SubSeq(s, Len(old) + 1, Len(s)), old, new)
    ELSE << s[1] >> \o Replace(Tail(s), old, new)

\* Collapse that leaves the pattern as it is
Collapse_not(pattern) == pattern

\* parse, line 248: .replace("%C%y", "%Y")
Collapse(pattern) == Replace(pattern, <<"%", "C", "%", "y">>, <<"%", "Y">>)

\* parse, lines 245-248: the format string of a complete state
Pattern(state, literals, raw) ==
    LET conversion(idx) ==
            IF \E c \in FieldSet : state.pos[c] = idx
            THEN state.fmts[CHOOSE c \in FieldSet : state.pos[c] = idx]
            ELSE << >>
        fmts == [ k \in 1..Len(raw) |->
                    IF conversion(k - 1) # << >> THEN conversion(k - 1) ELSE raw[k] ]
        joined == Flatten([ k \in 1..Len(literals) |->
                              literals[k] \o (IF k <= Len(fmts) THEN fmts[k] ELSE << >>) ])
    IN  Collapse(joined)

(***************************************************************************)
(* The state machine: calls of DateParser.parse                            *)
(***************************************************************************)

Threads == { "t1", "t2" }

VARIABLES
    parser,            \* the DateParser instance every call uses
    empty_satisfied,   \* contents of the module-level Counter of _State.empty
    call               \* per thread: the local variables of its parse call

vars == << parser, empty_satisfied, call >>

\* The locals of a call of parse(s) that has not started yet
NewCall(s) ==
    [ pc |-> "call", s |-> s, literals |-> << >>, raw |-> << >>, keyword |-> << >>,
      always_literal |-> {}, groups |-> << >>,
      partials |-> << >>, best_quality |-> 0, best_candidates |-> << >>, ret |-> << >> ]

Idle == [ NewCall(<< >>) EXCEPT !.pc = "idle" ]

\* parse, lines 88-194: from the input string to the first partial state.
\* Each intermediate result is computed once and bound to its name.
Start(t) ==
    /\ call[t].pc = "call"
    /\ \E collapsed \in { CollapseWhitespace(call[t].s) } :
       \E segments \in { compiled_split(parser.compiled, collapsed, 1, << >>) } :
       \E literals \in { EvenSlice(segments) } :
       \E raw \in { OddSlice(segments) } :
       \E looked \in { [ k \in 1..Len(raw) |-> _lookup_keyword(parser.locale_set.keywords, raw[k]) ] } :
       \E keyword \in { [ k \in 1..Len(raw) |-> looked[k].ret ] } :
       \E choices_per_position \in { [ k \in 1..Len(raw) |-> Cardinality(keyword[k]) ] } :
       \E always_literal \in { { k - 1 : k \in { k2 \in 1..Len(raw) : keyword[k2] = {} } } } :
       \E built \in { BuildGroups(parser.locale_set, raw, keyword) } :
       \E cleared \in { ClearUnsatisfiable(built) } :
       \E sorted \in { [ c \in FieldSet |-> SortGroup(cleared[c], choices_per_position) ] } :
       \E ordered \in { OrderedGroups(sorted) } :
       \E groups \in { ConstrainGroups(ordered) } :
         LET root == [ State_empty EXCEPT !.unconverted = always_literal,
                                          !.remaining_groups = groups ]
             c0 == [ call[t] EXCEPT !.literals = literals, !.raw = raw ]
         IN  call' = [ call EXCEPT ![t] =
                IF raw = << >> THEN [ c0 EXCEPT !.pc = "return", !.ret = << >> ]
                ELSE IF \E k \in 1..Len(raw) : looked[k].raised THEN [ c0 EXCEPT !.pc = "raise" ]
                ELSE IF groups = << >>
                     THEN [ c0 EXCEPT !.pc = "return", !.ret = << >>, !.keyword = keyword ]
                ELSE [ c0 EXCEPT !.pc = "search", !.keyword = keyword,
                                 !.always_literal = always_literal, !.groups = groups,
                                 !.partials = << [ state |-> root, next |-> 1 ] >> ] ]
    /\ UNCHANGED << parser, empty_satisfied >>

Top(t) == call[t].partials[Len(call[t].partials)]

Searching(t) == call[t].pc = "search" /\ call[t].partials # << >>

\* The partials with the generator on top advanced past its step k
Advanced(t, k) ==
    [ call[t].partials EXCEPT ![Len(call[t].partials)].next = k + 1 ]

\* parse, lines 196-200: the generator on top is exhausted
Pop(t) ==
    /\ Searching(t)
    /\ \E k \in { NextYield(Top(t), empty_satisfied) } : k = 0
    /\ call' = [ call EXCEPT ![t].partials = SubSeq(@, 1, Len(@) - 1) ]
    /\ UNCHANGED << parser, empty_satisfied >>

\* parse, lines 202-226: a partial state that cannot reach best_quality
Prune(t) ==
    /\ Searching(t)
    /\ \E k \in { NextYield(Top(t), empty_satisfied) } :
           /\ k # 0
           /\ \E child \in { Child(Top(t).state, k, empty_satisfied) } :
              \E state \in { child.new } :
                  /\ state.remaining_groups # << >>
                  /\ score(state, child.glob).quality + Heuristic(state) < call[t].best_quality
                  /\ call' = [ call EXCEPT ![t].partials = Advanced(t, k) ]
                  /\ empty_satisfied' = child.glob
    /\ UNCHANGED parser

\* parse, lines 202-229: a partial state whose children are searched next
Descend(t) ==
    /\ Searching(t)
    /\ \E k \in { NextYield(Top(t), empty_satisfied) } :
           /\ k # 0
           /\ \E child \in { Child(Top(t).state, k, empty_satisfied) } :
              \E state \in { child.new } :
                  /\ state.remaining_groups # << >>
                  /\ ~(score(state, child.glob).quality + Heuristic(state) < call[t].best_quality)
                  /\ call' = [ call EXCEPT ![t].partials =
                                 Append(Advanced(t, k), [ state |-> state, next |-> 1 ]) ]
                  /\ empty_satisfied' = child.glob
    /\ UNCHANGED parser

\* parse, lines 231-249: a complete state.  Each candidate keeps, next to
\* the (pattern, value, locales) the code appends, the state it came from.
Leaf(t) ==
    /\ Searching(t)
    /\ \E k \in { NextYield(Top(t), empty_satisfied) } :
           /\ k # 0
           /\ \E child \in { Child(Top(t).state, k, empty_satisfied) } :
                /\ child.new.remaining_groups = << >>
                /\ \E value \in { valid(child.new) } :
                   \E fs \in { final_score(child.new, child.glob) } :
                   \E sc \in { score(fs.state, fs.glob) } :
                   \E candidate \in { [ pattern |-> Pattern(fs.state, call[t].literals, call[t].raw),
                                        value |-> value,
                                        locales |-> sc.locales,
                                        state |-> fs.state ] } :
                   \E c1 \in { [ call[t] EXCEPT !.partials = Advanced(t, k) ] } :
                     IF value.kind = "None"
                     THEN call' = [ call EXCEPT ![t] = c1 ] /\ empty_satisfied' = child.glob
                     ELSE IF value.kind = "raise"
                     THEN call' = [ call EXCEPT ![t] = [ c1 EXCEPT !.pc = "raise" ] ]
                          /\ empty_satisfied' = child.glob
                     ELSE /\ empty_satisfied' = fs.glob
                          /\ call' = [ call EXCEPT ![t] =
                               IF sc.quality < c1.best_quality THEN c1
                               ELSE IF sc.quality # c1.best_quality
                               THEN [ c1 EXCEPT !.best_quality = sc.quality,
                                                !.best_candidates = << candidate >> ]
                               ELSE [ c1 EXCEPT !.best_candidates = Append(@, candidate) ] ]
    /\ UNCHANGED parser

\* parse, line 250
Return(t) ==
    /\ call[t].pc = "search"
    /\ call[t].partials = << >>
    /\ call' = [ call EXCEPT ![t].pc = "return", ![t].ret = call[t].best_candidates ]
    /\ UNCHANGED << parser, empty_satisfied >>

(***************************************************************************)
(* Inputs                                                                  *)
(***************************************************************************)

TwoDigits(n) == << Digits[(n \div 10) + 1], Digits[(n % 10) + 1] >>

\* Constructor arguments of the locale sets of the model
NoArgs == [ formats |-> {}, day |-> {}, mon |-> {}, am_pm |-> {}, alt_digits |-> {} ]

\* TimeLocaleSet(formats={'%a, %Y.eko %bren %da': {'eu_ES'}})
BasqueArgs ==
    [ NoArgs EXCEPT !.formats =
        { [ v |-> << "%","a",","," ","%","Y",".","e","k","o"," ","%","b","r","e","n"," ","%","d","a" >>,
            locales |-> { "eu_ES" } ] } ]

\* TimeLocaleSet(mon={"Jan;Feb;Mar;Apr;May;Jun;Jul;Aug;Sep;Oct;Nov;Dec": ["en_US"]})
MonthArgs ==
    [ NoArgs EXCEPT !.mon =
        { [ v |-> << "J","a","n",";","F","e","b",";","M","a","r",";","A","p","r",";",
                     "M","a","y",";","J","u","n",";","J","u","l",";","A","u","g",";",
                     "S","e","p",";","O","c","t",";","N","o","v",";","D","e","c" >>,
            locales |-> { "en_US" } ] } ]

\* TimeLocaleSet(day={"Sun;Mon;Tue;Wed;Thu;Fri;Sat": ["en_US"]})
DayArgs ==
    [ NoArgs EXCEPT !.day =
        { [ v |-> <<"S","u","n",";","M","o","n",";","T","u","e",";","W","e","d",";","T","h","u",";","F","r","i",";","S","a","t">>,
            locales |-> { "en_US" } ] } ]

\* TimeLocaleSet(formats={"%y05%d": ["en_US"]}): a literal that is a number
DigitArgs ==
    [ NoArgs EXCEPT !.formats =
        { [ v |-> << "%","y","0","5","%","d" >>, locales |-> { "en_US" } ] } ]

\* How many of SampleVals and of SampleYears the inputs are built from
NumVals == 5
NumYears == 1

SampleVals == << 21, 4, 56, 5, 60, 0, 29, 2, 13, 31 >>
SampleYears == << << 20, 18 >>, << 12, 5 >>, << 0, 1 >>, << 19, 0 >> >>

Vals == { SampleVals[i] : i \in 1..NumVals }
Years == { TwoDigits(SampleYears[i][1]) \o TwoDigits(SampleYears[i][2]) : i \in 1..NumYears }

Seps == { << >>, <<"-">>, <<":">> }

\* "2018-05-VV" for every two-digit VV
DayInputs == { <<"2","0","1","8","-","0","5","-">> \o TwoDigits(v) : v \in 0..99 }

\* "YYYY-AA-BB" with AA and BB in 1..12
MonthDayInputs ==
    { y \o <<"-">> \o TwoDigits(a) \o <<"-">> \o TwoDigits(b) : y \in Years, a \in 1..12, b \in 1..12 }

\* Three two-digit tokens joined by nothing, by "-" or by ":"
Joined(a, b, c, sep) == TwoDigits(a) \o sep \o TwoDigits(b) \o sep \o TwoDigits(c)

ThreeInputs == { Joined(a, b, c, sep) : a \in Vals, b \in Vals, c \in Vals, sep \in Seps }

\* Three tokens whose only readings are hour, minute, second and day, month, year
ClockOrDate == { << a, b, c >> \in {13, 21, 23} \X {1, 4, 12} \X {32, 56, 59} : TRUE }

ClockOrDateInputs == { Joined(x[1], x[2], x[3], sep) : x \in ClockOrDate, sep \in Seps }

OtherInputs ==
    { << >>,
      <<"a","b","c">>,
      <<"2","0","1","8">>,
      <<"+","0","8","0","0">>,
      <<"0","0","0","0","-","0","1","-","0","1">>,
      <<"1","3","-","0","5","-","2","0","1","8">>,
      <<"1","2",":","3","0","+","0","8","0","0">>,
      <<"2","0"," ","1","8","-","0","5","-","1","3">>,
      <<"2","0","1","8","-","5","-","1","3">>,
      <<"1","9","0","0","-","0","2","-","2","9">>,
      <<"2","0","0","0","-","0","2","-","2","9">>,
      <<"2","9","-","0","2","-","0","0">>,
      <<"3","1","/","0","4","/","1","8">>,
      <<"2","0","1","8","0","5","1","3","T","1","1","4","5","1","8">>,
      <<"2","0","1","8","-","0","5","-","1","3"," "," ","2","1",":","0","4",":","5","6">>,
      <<"%","C","%","y"," ","2","0","1","8","-","0","5","-","1","3">>,
      <<"%","C","1","8","-","0","5","-","1","3">>,
      <<"%","C","%","C","%","y","%","y"," ","2","1",":","0","4">>,
      <<"2","1",":","0","4"," ","U","T","C">>,
      <<"5",":","3","0"," ","p","m">> }

BasqueInputs ==
    { <<"2","0","1","8","e","k","o"," ","5","r","e","n"," ","1","3","a">>,
      <<"2","0","1","8","e","k","o"," ","0","5","-","1","3">>,
      <<"1","8","E","K","O"," ","0","5","-","1","3">>,
      <<"0","5","r","e","n"," ","1","3">>,
      <<"0","5","-","1","3","a","-","1","8">>,
      <<"1","3","a"," ","2","1",":","0","4">> }

DigitInputs ==
    { <<"2","0","1","8","0","5","1","3">>,
      <<"1","8","0","5","1","3">>,
      <<"0","5","0","5","0","5","0","5">>,
      <<"1","8"," ","0","5"," ","1","3"," ","0","5">>,
      <<"1","3","-","0","5","-","0","5">>,
      <<"1","8","0","5","1","3"," ","2","1",":","0","4">> }

\* Inputs with a number that is no month and no day between the two
MonthDayApartInputs ==
    { <<"0","5"," ","6","0"," ","1","3"," ","1","8">>,
      <<"1","3"," ","6","0"," ","0","5"," ","9","9">>,
      <<"2","0","1","8"," ","0","5"," ","6","0"," ","1","3">>,
      <<"1","8"," ","0","5"," ","2","1"," ","1","3">> }

\* Inputs that name a weekday
WeekdayInputs ==
    { <<"S","u","n"," ","1","3","-","0","5","-","1","8">>,
      <<"M","o","n"," ","1","3","-","0","5","-","1","8">>,
      <<"1","3","-","0","5","-","1","8">> }

MonthInputs ==
    { <<"2","0","1","8","J","a","n","9">>,
      <<"2","0","1","8","-","0","1","-","0","9">> }

\* dd-mm-YY for every two-digit year
TwoDigitYearInputs ==
    { <<"2","1","-","0","4","-">> \o TwoDigits(yy) : yy \in 0..99 }

\* 29-02-YY for every two-digit year
LeapDayInputs ==
    { <<"2","9","-","0","2","-">> \o TwoDigits(yy) : yy \in 0..99 }

ClockInputs ==
    { <<"2","3",":","5","9",":","6","0">>,
      <<"1","2",":","3","0"," ","a","m">>,
      <<"1","2",":","3","0"," ","p","m">>,
      <<"1","1",":","3","0"," ","a","m">>,
      <<"2","1",":","0","4">>,
      <<"1","3">>,
      <<"2","1",":","0","4",":","5","6"," ","1","3">>,
      <<"2","1"," ","1","3",":","0","4">>,
      <<"2","1",":","0","4"," ","1","3",":","5","6">>,
      <<"2","1","+","0","8","0","0",":","0","4">>,
      <<"2","1"," ","2","0","1","8","-","0","5","-","1","3"," ","0","4">>,
      <<"2","1",":","1","8","-","0","5","-","1","3",":","0","4">>,
      <<"0","4"," ","1","3","-","0","5","-","1","8"," ","2","1">> }

\* Sample format strings, and sample datetimes (year, month, day, hour,
\* minute, second)
FormatCorpus ==
    { <<"%","Y","-","%","m","-","%","d">>,
      <<"%","d","-","%","m","-","%","Y">>,
      <<"%","d","/","%","m","/","%","Y">>,
      <<"%","d",".","%","m",".","%","Y">>,
      <<"%","m","/","%","d","/","%","y">>,
      <<"%","H",":","%","M",":","%","S">>,
      <<"%","H",":","%","M">>,
      <<"%","Y","-","%","m","-","%","d"," ","%","H",":","%","M",":","%","S">>,
      <<"%","Y","%","m","%","d","T","%","H","%","M","%","S">> }

SampleDatetimes ==
    { << 2018, 5, 13, 21, 4, 56 >>, << 1999, 12, 31, 23, 59, 59 >>, << 2001, 2, 3, 4, 5, 6 >> }

RECURSIVE strftime(_, _)
\* datetime.strftime for the numeric conversions
strftime(fmt, dt) ==
    IF fmt = << >> THEN << >>
    ELSE IF fmt[1] = "%" /\ Len(fmt) >= 2
    THEN (CASE fmt[2] = "Y" -> TwoDigits(dt[1] \div 100) \o TwoDigits(dt[1] % 100)
            [] fmt[2] = "C" -> TwoDigits(dt[1] \div 100)
            [] fmt[2] = "y" -> TwoDigits(dt[1] % 100)
            [] fmt[2] = "m" -> TwoDigits(dt[2])
            [] fmt[2] = "d" -> TwoDigits(dt[3])
            [] fmt[2] = "H" -> TwoDigits(dt[4])
            [] fmt[2] = "M" -> TwoDigits(dt[5])
            [] fmt[2] = "S" -> TwoDigits(dt[6])
            [] OTHER -> << fmt[2] >>)
         \o strftime(SubSeq(fmt, 3, Len(fmt)), dt)
    ELSE << fmt[1] >> \o strftime(Tail(fmt), dt)

RoundTripInputs == { strftime(fmt, dt) : fmt \in FormatCorpus, dt \in SampleDatetimes }

Workload ==
    { [ args |-> NoArgs, s |-> s ] :
        s \in DayInputs \cup MonthDayInputs \cup ThreeInputs \cup ClockOrDateInputs \cup OtherInputs
                \cup TwoDigitYearInputs \cup LeapDayInputs \cup ClockInputs
                \cup RoundTripInputs \cup MonthDayApartInputs }
    \cup { [ args |-> BasqueArgs, s |-> s ] : s \in BasqueInputs }
    \cup { [ args |-> MonthArgs, s |-> s ] : s \in MonthInputs }
    \cup { [ args |-> DigitArgs, s |-> s ] : s \in DigitInputs }
    \cup { [ args |-> DayArgs, s |-> s ] : s \in WeekdayInputs }

\* A parser has been constructed and one thread is about to call parse
Init ==
    \E w \in Workload :
        /\ parser = DateParser(TimeLocaleSet(w.args))
        /\ empty_satisfied = Counter_empty
        /\ call = [ t \in Threads |-> IF t = "t1" THEN NewCall(w.s) ELSE Idle ]

Next ==
    \/ \E t \in Threads : Start(t)
    \/ \E t \in Threads : Pop(t)
    \/ \E t \in Threads : Prune(t)
    \/ \E t \in Threads : Descend(t)
    \/ \E t \in Threads : Leaf(t)
    \/ \E t \in Threads : Return(t)

Spec == Init /\ [][Next]_vars

(***************************************************************************)
(* Exhaustive enumeration: the search of parse without the pruning bound   *)
(***************************************************************************)

\* The first partial state of a call
Root(c) ==
    [ State_empty EXCEPT !.unconverted = c.always_literal, !.remaining_groups = c.groups ]

\* The children a state's generator yields
ChildrenOf(state, glob) ==
    { Child(state, k, glob).new :
        k \in { k2 \in 1..(Len(state.remaining_groups[1].options) + 1) : Child(state, k2, glob).ok } }

RECURSIVE Leaves(_, _)
\* Every complete state below a state, pruning nothing
Leaves(state, glob) ==
    IF state.remaining_groups = << >> THEN { state }
    ELSE UNION { Leaves(child, glob) : child \in ChildrenOf(state, glob) }

\* The candidate of a complete state: what parse appends for it
CandidateOf(leaf, c, glob) ==
    LET fs == final_score(leaf, glob)
    IN  [ pattern |-> Pattern(fs.state, c.literals, c.raw),
          value |-> valid(leaf),
          locales |-> score(fs.state, fs.glob).locales,
          state |-> fs.state ]

QualityOf(candidate, glob) == score(candidate.state, glob).quality

\* The candidates of all complete, valid assignments of a call's input
AllCandidates(c, glob) ==
    { cand \in { CandidateOf(leaf, c, glob) : leaf \in Leaves(Root(c), glob) } :
        cand.value.kind \in { "date", "time", "datetime" } }

\* Those among them with the maximum final score
BestCandidates(c, glob) ==
    LET all == AllCandidates(c, glob)
    IN  { cand \in all : \A other \in all : QualityOf(other, glob) <= QualityOf(cand, glob) }

(***************************************************************************)
(* Properties                                                              *)
(***************************************************************************)

Returned(t) == call[t].pc = "return"

\* The (format, value, locales) triples a call returned
Triples(t) ==
    [ k \in 1..Len(call[t].ret) |->
        << call[t].ret[k].pattern, call[t].ret[k].value, call[t].ret[k].locales >> ]

Formats(t) == [ k \in 1..Len(call[t].ret) |-> call[t].ret[k].pattern ]

DateValue(year, month, day) ==
    [ kind |-> "date", date |-> [ year |-> year, month |-> month, day |-> day ], time |-> NoTime ]

TimeValue(hour, minute, second) ==
    [ kind |-> "time", date |-> NoDate, time |-> [ hour |-> hour, minute |-> minute, second |-> second ] ]

\* Every candidate a call holds: those collected so far and those returned
Held(t) == Range(call[t].best_candidates) \cup Range(call[t].ret)

Assigned(state) == { c \in FieldSet : state.pos[c] # None }

\* C1: parse never raises: every call that ends returns a list, empty when
\* the input has no candidate tokens.
C1_ParseNeverRaises ==
    \A t \in Threads :
        /\ call[t].pc # "raise"
        /\ (Returned(t) /\ call[t].raw = << >>) => call[t].ret = << >>

\* C2: the list parse returns holds exactly the complete valid assignments
\* of maximum final score, each once: pruning loses none of them and
\* nothing below the maximum is returned.
C2_ReturnsExactlyTheBest ==
    \A t \in Threads :
        Returned(t) =>
            IF call[t].groups = << >> THEN call[t].ret = << >>
            ELSE LET best == BestCandidates(call[t], empty_satisfied)
                 IN  /\ Range(call[t].ret) = best
                     /\ Len(call[t].ret) = Cardinality(best)

\* C2 witness: a call returned two tied candidates although a complete
\* valid assignment of lower score exists, and states were pruned
C2_Witness ==
    \E t \in Threads :
        /\ Returned(t)
        /\ Len(call[t].ret) = 2
        /\ \E cand \in AllCandidates(call[t], empty_satisfied) :
               QualityOf(cand, empty_satisfied) < call[t].best_quality

\* C3: in every candidate, a date field implies year, month and day, and a
\* time field implies hour and minute.
C3_DateAndTimeComplete ==
    \A t \in Threads : \A cand \in Held(t) :
        /\ (Assigned(cand.state) \cap all_date_formats # {}) =>
               min_date_formats \subseteq Assigned(cand.state)
        /\ (Assigned(cand.state) \cap all_time_formats # {}) =>
               min_time_formats \subseteq Assigned(cand.state)

\* C3 witness: a returned candidate with a century, and one with seconds
C3_Witness ==
    \E t \in Threads :
        /\ Returned(t)
        /\ \E cand \in Range(call[t].ret) :
               "C" \in Assigned(cand.state) /\ "S" \in Assigned(cand.state)

Contains(s, sub) == \E i \in 1..Len(s) : StartsAt(s, i, sub)

\* C4: no returned format string contains %C%y, also when the input text
\* itself brings % characters into the format.
C4_NoCenturyYearPair ==
    \A t \in Threads : \A cand \in Held(t) :
        ~Contains(cand.pattern, <<"%", "C", "%", "y">>)

\* C4 witness: a returned candidate whose century and year are adjacent
\* conversions, from an input that has a % in its literal text
C4_Witness ==
    \E t \in Threads :
        /\ Returned(t)
        /\ Contains(call[t].s, <<"%">>)
        /\ \E cand \in Range(call[t].ret) :
               /\ cand.state.pos.C # None
               /\ call[t].literals[cand.state.pos.y + 1] = << >>
               /\ Contains(cand.pattern, <<"%", "Y">>)

\* C5: the locales of a candidate are None or a non-empty set, and so are
\* the required_locales of every state of the search.
C5_LocalesNoneOrNonEmpty ==
    \A t \in Threads :
        /\ \A cand \in Held(t) : cand.locales = NoneSet \/ cand.locales[1] # {}
        /\ \A k \in 1..Len(call[t].partials) :
               LET r == call[t].partials[k].state.required_locales
               IN  r = NoneSet \/ r[1] # {}

\* C5 witness: a returned candidate with a non-empty locale set
C5_Witness ==
    \E t \in Threads :
        Returned(t) /\ \E cand \in Range(call[t].ret) : cand.locales = Some({ "eu_ES" })

Finished(t) == call[t].pc \in { "return", "raise" }

EmptyLocaleSet == parser.locale_set = TimeLocaleSet(NoArgs)

\* The input of a call is YYYY-AA-BB
IsYearMonthDay(s) ==
    /\ Len(s) = 10
    /\ s[5] = "-" /\ s[8] = "-"
    /\ \A i \in {1, 2, 3, 4, 6, 7, 9, 10} : isdigitChar(s[i])

\* C7: with an empty locale set, YYYY-AA-BB with AA and BB in 1..12 (and a
\* year that datetime accepts) returns %Y-%m-%d and then %Y-%d-%m, with the
\* dates (YYYY, AA, BB) and (YYYY, BB, AA) and no locales.
C7_MonthDayTieKept ==
    \A t \in Threads :
        LET s == call[t].s
            year == intOf(SubSeq(s, 1, 4))
            aa == intOf(SubSeq(s, 6, 7))
            bb == intOf(SubSeq(s, 9, 10))
        IN  (/\ Finished(t) /\ EmptyLocaleSet /\ IsYearMonthDay(s)
             /\ year >= 1 /\ aa \in 1..12 /\ bb \in 1..12)
            => /\ Returned(t)
               /\ Triples(t) =
                    << << <<"%","Y","-","%","m","-","%","d">>, DateValue(year, aa, bb), NoneSet >>,
                       << <<"%","Y","-","%","d","-","%","m">>, DateValue(year, bb, aa), NoneSet >> >>

\* C7 witness: such an input, with AA and BB different, has returned
C7_Witness ==
    \E t \in Threads :
        /\ Returned(t) /\ EmptyLocaleSet /\ IsYearMonthDay(call[t].s)
        /\ intOf(SubSeq(call[t].s, 6, 7)) = 12
        /\ intOf(SubSeq(call[t].s, 9, 10)) = 1
        /\ Len(call[t].ret) = 2

\* The input of a call is three two-digit tokens joined by sep
IsJoined(s, sep) ==
    /\ Len(s) = 6 + 2 * Len(sep)
    /\ \A i \in { 1, 2, 3 + Len(sep), 4 + Len(sep), 5 + 2 * Len(sep), 6 + 2 * Len(sep) } :
           isdigitChar(s[i])
    /\ s = Joined(intOf(SubSeq(s, 1, 2)), intOf(SubSeq(s, 3 + Len(sep), 4 + Len(sep))),
                  intOf(SubSeq(s, 5 + 2 * Len(sep), 6 + 2 * Len(sep))), sep)

\* What C8 says parse returns for the tokens a, b, c joined by sep
ClockOrDateResult(t, a, b, c, sep) ==
    /\ Returned(t)
    /\ sep = <<":">> =>
         Triples(t) = << << <<"%","H",":","%","M",":","%","S">>, TimeValue(a, b, c), NoneSet >> >>
    /\ sep = <<"-">> =>
         Triples(t) = << << <<"%","d","-","%","m","-","%","y">>, DateValue(2000 + c, b, a), NoneSet >> >>
    /\ sep = << >> =>
         /\ Len(call[t].ret) = 2
         /\ Range(Formats(t)) = { <<"%","H","%","M","%","S">>, <<"%","d","%","m","%","y">> }

\* The three tokens of a joined input
Tokens(s, sep) ==
    << intOf(SubSeq(s, 1, 2)), intOf(SubSeq(s, 3 + Len(sep), 4 + Len(sep))),
       intOf(SubSeq(s, 5 + 2 * Len(sep), 6 + 2 * Len(sep))) >>

C9_MonthName ==
    \A t \in Threads :
        (/\ Finished(t)
         /\ parser.locale_set = TimeLocaleSet(MonthArgs)
         /\ call[t].s = <<"2","0","1","8","J","a","n","9">>)
        => /\ Returned(t)
           /\ Triples(t) = << << <<"%","Y","%","b","%","d">>, DateValue(2018, 1, 9),
                                 Some({ "en_US" }) >> >>

\* The specifiers a plain number may stand for
Offered(v) ==
    { f \in { "C", "y", "S", "M", "H", "d", "m" } :
        \/ f \in { "C", "y" }
        \/ f = "S" /\ v <= 60
        \/ f = "M" /\ v <= 59
        \/ f = "H" /\ v <= 23
        \/ f = "d" /\ 1 <= v /\ v <= 31
        \/ f = "m" /\ 1 <= v /\ v <= 12 }

\* C10: a plain digit token of value v is offered exactly C, y, S iff
\* v <= 60, M iff v <= 59, H iff v <= 23, d iff 1 <= v <= 31 and m iff
\* 1 <= v <= 12; 13 is never a month, and 2018-05-13 returns only %Y-%m-%d.
C10_LegalNumbers ==
    \A t \in Threads :
        /\ \A k \in 1..Len(call[t].keyword) :
               isdigit(call[t].raw[k]) =>
                   call[t].keyword[k] =
                       { << <<"%", f>>, intOf(call[t].raw[k]), NoneSet >> :
                           f \in Offered(intOf(call[t].raw[k])) }
        /\ \A cand \in Held(t) : cand.state.value.m # 13
        /\ (Returned(t) /\ call[t].s = <<"2","0","1","8","-","0","5","-","1","3">>)
               => Formats(t) = << <<"%","Y","-","%","m","-","%","d">> >>

\* C10 witness: 2018-05-13 has returned, its 13 offered as a day
C10_Witness ==
    \E t \in Threads :
        /\ Returned(t)
        /\ call[t].s = <<"2","0","1","8","-","0","5","-","1","3">>
        /\ Len(call[t].ret) = 1
        /\ call[t].ret[1].state.value.d = 13

(***************************************************************************)
(* Two concurrent calls on one parser                                      *)
(***************************************************************************)

ConcInputs ==
    { <<"2","0","1","8","e","k","o"," ","5","r","e","n"," ","1","3","a">>,
      <<"0","5","r","e","n"," ","1","3">>,
      <<"1","3","a"," ","2","1",":","0","4">>,
      <<"2","0","1","8","-","0","5","-","1","3">> }

\* One parser, and each thread about to call parse on it
InitConc ==
    \E s1 \in ConcInputs : \E s2 \in ConcInputs :
        /\ parser = DateParser(TimeLocaleSet(BasqueArgs))
        /\ empty_satisfied = Counter_empty
        /\ call = [ t \in Threads |-> IF t = "t1" THEN NewCall(s1) ELSE NewCall(s2) ]

SpecConc == InitConc /\ [][Next]_vars

\* The children a state's generator yields, in the order it yields them
ChildrenSeq(state, glob) ==
    LET n == Len(state.remaining_groups[1].options) + 1
        kids == [ k \in 1..n |-> Child(state, k, glob) ]
        ks == SelectSeq([ k \in 1..n |-> k ], LAMBDA k : kids[k].ok)
    IN  [ i \in 1..Len(ks) |-> kids[ks[i]].new ]

RECURSIVE LeavesSeq(_, _)
\* The complete states below a state in the order the search reaches them
LeavesSeq(state, glob) ==
    IF state.remaining_groups = << >> THEN << state >>
    ELSE CHOOSE r \in { Flatten([ i \in 1..Len(kids) |-> LeavesSeq(kids[i], glob) ]) :
                        kids \in { ChildrenSeq(state, glob) } } : TRUE

\* What a call returns when it runs alone, the module-level Counter being
\* as the module created it
AloneResult(c) ==
    LET leaves == LeavesSeq(Root(c), Counter_empty)
        cands == [ i \in 1..Len(leaves) |-> CandidateOf(leaves[i], c, Counter_empty) ]
        all == SelectSeq(cands, LAMBDA cand : cand.value.kind \in { "date", "time", "datetime" })
    IN  SelectSeq(all, LAMBDA cand :
            \A k \in 1..Len(all) :
                QualityOf(all[k], Counter_empty) <= QualityOf(cand, Counter_empty))

\* C6: while two calls share a parser, in any interleaving, the parser and
\* the Counter of _State.empty stay as constructed, and a call that returns
\* returns what it returns alone.
C6_ConcurrentCallsIndependent ==
    /\ parser = DateParser(TimeLocaleSet(BasqueArgs))
    /\ empty_satisfied = Counter_empty
    /\ \A t \in Threads :
           (Returned(t) /\ call[t].groups # << >>) => call[t].ret = AloneResult(call[t])

\* C6 witness: one call has returned a candidate of locale eu_ES while the
\* other is in the middle of its search, a candidate already found
C6_Witness ==
    \E t \in Threads : \E u \in Threads \ { t } :
        /\ Returned(t)
        /\ \E k \in 1..Len(call[t].ret) : call[t].ret[k].locales = Some({ "eu_ES" })
        /\ call[u].pc = "search"
        /\ call[u].best_candidates # << >>

\* C11: 60 is accepted as seconds and never as minutes: HH:MM:60 with a
\* valid hour and minute returns a candidate that holds %S with the value
\* 60, and no candidate gives a 60 to %M.
C11_LeapSecondAccepted ==
    \A t \in Threads :
        /\ \A cand \in Held(t) : cand.state.value.M # 60
        /\ LET x == Tokens(call[t].s, <<":">>)
           IN  (/\ Finished(t) /\ EmptyLocaleSet /\ IsJoined(call[t].s, <<":">>)
                /\ x[1] <= 23 /\ x[2] <= 59 /\ x[3] = 60)
               => /\ Returned(t)
                  /\ \E k \in 1..Len(call[t].ret) :
                         /\ Contains(call[t].ret[k].pattern, <<"%", "S">>)
                         /\ call[t].ret[k].state.value.S = 60

\* C12 as stated: without a century, day 29 of month 2 is decoded in the
\* century 20 for every two-digit year.
C12_AsStated ==
    \A t \in Threads : \A cand \in Held(t) :
        LET v == cand.state.value
        IN  (v.C = None /\ v.d = 29 /\ v.m = 2) => cand.value.date.year = 2000 + v.y

\* C12 amended: without a century, day 29 of month 2 of year 00 is decoded
\* as 2000-02-29, and 29-02-00 returns it; for the other two-digit years the
\* year is 2000 + yy up to 68 and 1900 + yy from 69 on.
C12_LeapDayOfYearZero ==
    \A t \in Threads :
        /\ \A cand \in Held(t) :
               LET v == cand.state.value
               IN  (v.C = None /\ v.d = 29 /\ v.m = 2) =>
                       cand.value.date.year = (IF v.y = 0 THEN 2000
                                               ELSE IF v.y <= 68 THEN 2000 + v.y
                                               ELSE 1900 + v.y)
        /\ (Finished(t) /\ EmptyLocaleSet /\ call[t].s = <<"2","9","-","0","2","-","0","0">>)
               => /\ Returned(t)
                  /\ Triples(t) = << << <<"%","d","-","%","m","-","%","y">>,
                                        DateValue(2000, 2, 29), NoneSet >> >>

\* C12 witness: 29-02-00 has returned 2000-02-29
C12_Witness ==
    \E t \in Threads :
        /\ Returned(t)
        /\ \E k \in 1..Len(call[t].ret) :
               /\ call[t].ret[k].state.value.C = None
               /\ call[t].ret[k].state.value.y = 0
               /\ call[t].ret[k].state.value.m = 2
               /\ call[t].ret[k].state.value.d = 29
               /\ call[t].ret[k].value.date.year = 2000

\* C13: without a century and a weekday, the two-digit year yy is decoded as
\* 2000 + yy up to 68 and as 1900 + yy from 69 on.
C13_TwoDigitYearPivot ==
    \A t \in Threads : \A cand \in Held(t) :
        LET v == cand.state.value
        IN  (v.C = None /\ v.a = None /\ v.y # None) =>
                cand.value.date.year = (IF v.y <= 68 THEN 2000 + v.y ELSE 1900 + v.y)

\* C13 witness: 21-04-69 has returned a date of 1969
C13_Witness ==
    \E t \in Threads :
        /\ Returned(t)
        /\ call[t].s = <<"2","1","-","0","4","-","6","9">>
        /\ Len(call[t].ret) = 1
        /\ call[t].ret[1].state.value.y = 69
        /\ call[t].ret[1].value.date.year = 1969

\* Inputs with an AM/PM word, and the hour each one means
TwelveHourSamples ==
    { << <<"1","2",":","3","0"," ","a","m">>, 0 >>,
      << <<"1","2",":","3","0"," ","p","m">>, 12 >>,
      << <<"1","1",":","3","0"," ","a","m">>, 11 >>,
      << <<"5",":","3","0"," ","p","m">>, 17 >> }

\* C14: a returned candidate with an AM/PM segment has its hour H in 1..12
\* and decodes it as 0 for 12 am, 12 for 12 pm and H + 12 * pm otherwise:
\* 12:30 am, 12:30 pm, 11:30 am and 5:30 pm return the hours 0, 12, 11, 17.
C14_TwelveHourClock ==
    \A t \in Threads :
        /\ \A cand \in Held(t) :
               LET v == cand.state.value
               IN  v.p # None =>
                       /\ v.H \in 1..12
                       /\ cand.value.time.hour = (IF v.H = 12 THEN 0 ELSE v.H) + 12 * v.p
        /\ \A x \in TwelveHourSamples :
               (Finished(t) /\ EmptyLocaleSet /\ call[t].s = x[1])
               => /\ Returned(t)
                  /\ \E k \in 1..Len(call[t].ret) :
                         /\ call[t].ret[k].state.value.p # None
                         /\ call[t].ret[k].value.time.hour = x[2]

\* C15: round trip: a sample datetime formatted with a format of the corpus
\* and given to parse returns at least one candidate with that format, also
\* when '-' directly precedes the four-digit year (%d-%m-%Y).
C15_RoundTrip ==
    \A t \in Threads : \A fmt \in FormatCorpus : \A dt \in SampleDatetimes :
        (Finished(t) /\ EmptyLocaleSet /\ call[t].s = strftime(fmt, dt))
        => /\ Returned(t)
           /\ \E k \in 1..Len(call[t].ret) : call[t].ret[k].pattern = fmt

\* A call's search reaches a complete assignment that determines neither a
\* date nor a time
ReachesNoValue(t) ==
    /\ call[t].groups # << >>
    /\ \E leaf \in Leaves(Root(call[t]), empty_satisfied) : valid(leaf).kind = "None"

\* C16 as stated: the decoded value of a returned candidate is None when
\* neither a date nor a time is determined: a call whose only complete
\* assignments determine neither returns a candidate with the value None.
C16_AsStated ==
    \A t \in Threads :
        (Returned(t) /\ ReachesNoValue(t) /\ AllCandidates(call[t], empty_satisfied) = {})
        => \E k \in 1..Len(call[t].ret) : call[t].ret[k].value.kind = "None"

\* C16 amended: the decoded value of every candidate is a date, a time or a
\* datetime and never None: it has a date exactly when date categories are
\* assigned and a time exactly when time categories are; a complete
\* assignment that determines neither is dropped, so a call with no other
\* complete assignment returns the empty list.
C16_ValueNeverNone ==
    \A t \in Threads :
        /\ \A cand \in Held(t) :
               /\ cand.value.kind \in { "date", "time", "datetime" }
               /\ (cand.value.kind \in { "date", "datetime" })
                      <=> (Assigned(cand.state) \cap all_date_formats # {})
               /\ (cand.value.kind \in { "time", "datetime" })
                      <=> (Assigned(cand.state) \cap all_time_formats # {})
        /\ (Returned(t) /\ ReachesNoValue(t) /\ AllCandidates(call[t], empty_satisfied) = {})
               => call[t].ret = << >>

\* C16 witness: a call has reached a complete assignment with neither a date
\* nor a time, found no other, and returned the empty list
C16_Witness ==
    \E t \in Threads :
        /\ Returned(t)
        /\ ReachesNoValue(t)
        /\ AllCandidates(call[t], empty_satisfied) = {}
        /\ call[t].ret = << >>

(***************************************************************************)
(* Locale sets built from sample formats                                   *)
(***************************************************************************)

NumConvs == 4
NumLits == 4

SampleConvs == << "Y", "b", "d", "Z", "j", "A", "e", "%" >>
SampleLits ==
    << <<"e","k","o"," ">>, <<"-">>, << >>, <<"a",".">>,
       <<"r","e","n"," ">>, <<":">>, <<","," ">>, <<"T","h">> >>

Convs == { SampleConvs[i] : i \in 1..NumConvs }
Lits == { SampleLits[i] : i \in 1..NumLits }
Leads == { << >>, <<"d","a","y"," ">> }

\* A format string as its parts: the text before the first conversion, and
\* each conversion letter with the text after it
Shapes ==
    { [ lead |-> lead, items |-> << [ conv |-> c1, lit |-> l1 ], [ conv |-> c2, lit |-> l2 ] >>,
        locales |-> { "eu_ES" } ] :
      lead \in Leads, c1 \in Convs, l1 \in Lits, c2 \in Convs, l2 \in Lits }

\* '%a, %Y.eko %bren %da' of eu_ES
BasqueShape ==
    [ lead |-> << >>,
      items |-> << [ conv |-> "a", lit |-> <<","," ">> ],
                   [ conv |-> "Y", lit |-> <<".","e","k","o"," ">> ],
                   [ conv |-> "b", lit |-> <<"r","e","n"," ">> ],
                   [ conv |-> "d", lit |-> <<"a">> ] >>,
      locales |-> { "eu_ES" } ]

\* '%d.eko %H' of en_US
OtherShape ==
    [ lead |-> << >>,
      items |-> << [ conv |-> "d", lit |-> <<".","e","k","o"," ">> ],
                   [ conv |-> "H", lit |-> << >> ] >>,
      locales |-> { "en_US" } ]

\* The sets of sample formats a locale set is built from
ShapeCorpus == { { f } : f \in Shapes } \cup { { BasqueShape }, { BasqueShape, OtherShape } }

\* The format string of a shape
Render(f) ==
    f.lead \o Flatten([ i \in 1..Len(f.items) |-> <<"%", f.items[i].conv>> \o f.items[i].lit ])

ShapeArgs(c) ==
    [ NoArgs EXCEPT !.formats = { [ v |-> Render(f), locales |-> f.locales ] : f \in c } ]

\* Every set of sample formats with its TimeLocaleSet(formats=...)
ShapeTablePairs == { << c, TimeLocaleSet(ShapeArgs(c)) >> : c \in ShapeCorpus }

\* The sets of sample formats a locale set can have been built from
BuiltFrom(locale_set) == { p[1] : p \in { q \in ShapeTablePairs : q[2] = locale_set } }

\* A locale set has been built from sample formats, a parser constructed on
\* it, and one thread is about to call parse
InitTables ==
    \E p \in ShapeTablePairs :
        /\ parser = DateParser(p[2])
        /\ empty_satisfied = Counter_empty
        /\ call = [ t \in Threads |->
                      IF t = "t1" THEN NewCall(<<"2","0","1","8","-","0","5","-","1","3">>)
                      ELSE Idle ]

SpecTables == InitTables /\ [][Next]_vars

RECURSIVE LStripIgnore(_)
\* A text without the ignorable characters at its start
LStripIgnore(l) ==
    IF l # << >> /\ l[1] \in Ignore THEN LStripIgnore(Tail(l)) ELSE l

RECURSIVE RStripIgnore(_)
\* A text without the ignorable characters at its end
RStripIgnore(l) ==
    IF l # << >> /\ l[Len(l)] \in Ignore THEN RStripIgnore(SubSeq(l, 1, Len(l) - 1)) ELSE l

\* The letter a conversion is stored under
FoldedLetter(conv) ==
    CASE conv = "e" -> "d"
      [] conv \in { "I", "k", "l" } -> "H"
      [] conv = "Y" -> "y"
      [] OTHER -> conv

\* Conversions recognised by their word, whose context is not recorded
ByWord(conv) == conv \in { "a", "A", "b", "B", "p", "P" }

\* The literal after the i-th conversion of a shape, ignorable characters
\* stripped at both ends
StrippedLiteral(f, i) == casefold(RStripIgnore(LStripIgnore(f.items[i].lit)))

\* The literal after the i-th conversion as the extractor sees it: the
\* ignorable characters next to a conversion are stripped
SuffixKey(f, i) ==
    casefold(IF i = Len(f.items) THEN LStripIgnore(f.items[i].lit)
             ELSE RStripIgnore(LStripIgnore(f.items[i].lit)))

\* The strings of the global suffixes and prefixes
GlobalSuffixKeys == { <<":">>, <<"/">>, <<"-">>, <<"t">> }

\* The (string, letter, locales) a set of shapes gives to the suffixes
ShapeSuffixes(c) ==
    { << SuffixKey(f[1], f[2]), FoldedLetter(f[1].items[f[2]].conv), f[1].locales >> :
        f \in { g \in UNION { { << h, i >> : i \in 1..Len(h.items) } : h \in c } :
                  /\ SuffixKey(g[1], g[2]) # << >>
                  /\ ~ByWord(g[1].items[g[2]].conv) } }

\* C17 as stated: every non-empty literal directly after a conversion other
\* than %a/%A, %b/%B, %p/%P, ignorable characters stripped, is in suffixes
\* under the folded letter of the conversion with the locales of the
\* format; a literal that follows only such a word conversion is no key.
C17_AsStated ==
    \A c \in BuiltFrom(parser.locale_set) :
        \A f \in c : \A i \in 1..Len(f.items) :
            LET key == StrippedLiteral(f, i)
                suffixes == parser.locale_set.suffixes
            IN  (key # << >> /\ ~ByWord(f.items[i].conv)) =>
                    /\ key \in DOMAIN suffixes
                    /\ \E e \in suffixes[key] :
                           /\ e[1] = FoldedLetter(f.items[i].conv)
                           /\ f.locales \subseteq e[2]

\* C17 amended: apart from the strings of the global suffixes, whose entries
\* are the global ones with no locales, the suffixes table holds exactly the
\* case-folded non-empty literals directly after a conversion other than
\* %a/%A, %b/%B, %p/%P, under the folded letter of the conversion, with the
\* locales of the formats that have them; ignorable characters are stripped
\* where the literal touches a conversion, so not at the end of the format.
C17_SuffixesFromFormats ==
    \A c \in BuiltFrom(parser.locale_set) :
        LET suffixes == parser.locale_set.suffixes
            expected == ShapeSuffixes(c)
        IN  /\ DOMAIN suffixes = { e[1] : e \in expected } \cup GlobalSuffixKeys
            /\ \A key \in DOMAIN suffixes \ GlobalSuffixKeys :
                   suffixes[key] =
                       { << letter, UNION { e[3] : e \in { e2 \in expected :
                                               e2[1] = key /\ e2[2] = letter } } >> :
                         letter \in { e[2] : e \in { e2 \in expected : e2[1] = key } } }
            /\ \A g \in global_suffixes :
                   suffixes[g[1]] = { << letter, {} >> : letter \in g[2] }

\* C17 witness: the locale set of '%a, %Y.eko %bren %da' has eko for y and a
\* for d among its suffixes and no ren, and parse has run on it
C17_Witness ==
    /\ { BasqueShape } \in BuiltFrom(parser.locale_set)
    /\ parser.locale_set.suffixes[<<"e","k","o">>] = { << "y", { "eu_ES" } >> }
    /\ parser.locale_set.suffixes[<<"a">>] = { << "d", { "eu_ES" } >> }
    /\ <<"r","e","n">> \notin DOMAIN parser.locale_set.suffixes
    /\ Returned("t1")

\* The letters C18 lists for the prefixes
NumericLetters == { "C", "y", "m", "d", "H", "M", "S", "z" }

\* C18 as stated: every specifier of the prefixes table is one of C, y, m,
\* d, H, M, S, z.
C18_AsStated ==
    \A key \in DOMAIN parser.locale_set.prefixes :
        \A e \in parser.locale_set.prefixes[key] : e[1] \in NumericLetters

\* The literal before the i-th conversion as the extractor sees it
PrefixKey(f, i) ==
    IF i = 1 THEN casefold(RStripIgnore(f.lead)) ELSE SuffixKey(f, i - 1)

\* C18 amended: every specifier of the prefixes table is the folded letter
\* of a conversion other than %a/%A, %b/%B, %p/%P that follows the string in
\* a sample format (so never e, I, k, l or Y, but possibly Z, j or %), or a
\* letter of the global prefixes.
C18_PrefixLetters ==
    \A c \in BuiltFrom(parser.locale_set) :
        \A key \in DOMAIN parser.locale_set.prefixes :
            \A e \in parser.locale_set.prefixes[key] :
                \/ \E g \in global_prefixes : g[1] = key /\ e[1] \in g[2] /\ e[2] = {}
                \/ \E f \in c : \E i \in 1..Len(f.items) :
                       /\ PrefixKey(f, i) = key
                       /\ ~ByWord(f.items[i].conv)
                       /\ e[1] = FoldedLetter(f.items[i].conv)
                       /\ f.locales \subseteq e[2]

\* C18 witness: a prefixes table holds the specifier Z, and parse has run
C18_Witness ==
    /\ \E key \in DOMAIN parser.locale_set.prefixes :
           \E e \in parser.locale_set.prefixes[key] : e[1] = "Z" /\ e[2] = { "eu_ES" }
    /\ BuiltFrom(parser.locale_set) # {}
    /\ Returned("t1")

\* The final score of a complete state
FinalQuality(leaf, glob) ==
    LET fs == final_score(leaf, glob)
    IN  score(fs.state, fs.glob).quality

\* The bound parse compares with best_quality at a partial state is at
\* least the final score of every complete valid state below it
Admissible(state, glob) ==
    \E bound \in { score(state, glob).quality + Heuristic(state) } :
        \A leaf \in Leaves(state, glob) :
            valid(leaf).kind \in { "date", "time", "datetime" } =>
                FinalQuality(leaf, glob) <= bound

\* The partial state parse has just taken from the generator on top, with
\* the module-level Counter after that step; << >> when there is none
Taken(t) ==
    IF ~Searching(t) THEN << >>
    ELSE LET k == NextYield(Top(t), empty_satisfied)
         IN  IF k = 0 THEN << >>
             ELSE LET child == Child(Top(t).state, k, empty_satisfied)
                  IN  IF child.new.remaining_groups = << >> THEN << >>
                      ELSE << child >>

\* C19: at every partial state the search takes up, and at every partial
\* state whose children it is searching, the current score plus the
\* heuristic is at least the final score of every complete valid assignment
\* reachable from that state.
C19_HeuristicAdmissible ==
    \A t \in Threads :
        /\ \A child \in Range(Taken(t)) : Admissible(child.new, child.glob)
        /\ Searching(t) => Admissible(Top(t).state, empty_satisfied)

\* C19 witness: the search takes up a partial state with hints pending,
\* groups remaining and a complete valid state below it whose final score
\* is above the state's current score
C19_Witness ==
    \E t \in Threads : \E child \in Range(Taken(t)) :
        /\ child.new.pending_hints # << >>
        /\ \E leaf \in Leaves(child.new, child.glob) :
               /\ valid(leaf).kind \in { "date", "time", "datetime" }
               /\ FinalQuality(leaf, child.glob) > score(child.new, child.glob).quality

\* No conversion is assigned to a position strictly between a and b
NothingBetween(pos, a, b) == \A c \in FieldSet : ~(pos[c] # None /\ a < pos[c] /\ pos[c] < b)

\* C20: in every candidate a call holds or returns, the hour is before the
\* minute, the minute before the second when seconds are assigned, and no
\* position strictly between hour and minute or between minute and second
\* is assigned a conversion.
C20_ClockOrder ==
    \A t \in Threads : \A cand \in Held(t) :
        LET pos == cand.state.pos
        IN  /\ (pos.H # None /\ pos.M # None) =>
                   pos.H < pos.M /\ NothingBetween(pos, pos.H, pos.M)
            /\ (pos.M # None /\ pos.S # None) =>
                   pos.M < pos.S /\ NothingBetween(pos, pos.M, pos.S)

\* C20 witness: a returned candidate with hour, minute and second assigned
\* and a number between two of them left as a literal
C20_Witness ==
    \E t \in Threads :
        /\ Returned(t)
        /\ \E cand \in Range(call[t].ret) :
               LET pos == cand.state.pos
               IN  /\ \A c \in { "H", "M", "S" } : pos[c] # None
                   /\ \E p \in cand.state.unconverted :
                          /\ pos.H < p /\ p < pos.S
                          /\ isdigit(call[t].raw[p + 1])

\* C21: in every candidate a call holds or returns that assigns both a
\* month and a day, no position strictly between the month and the day is
\* assigned a conversion.
C21_MonthNearDay ==
    \A t \in Threads : \A cand \in Held(t) :
        LET pos == cand.state.pos
        IN  (pos.m # None /\ pos.d # None) =>
                /\ pos.m < pos.d => NothingBetween(pos, pos.m, pos.d)
                /\ pos.d < pos.m => NothingBetween(pos, pos.d, pos.m)

\* C21 witness: a returned candidate with a month and a day assigned and a
\* number between them left as a literal
C21_Witness ==
    \E t \in Threads :
        /\ Returned(t)
        /\ \E cand \in Range(call[t].ret) :
               LET pos == cand.state.pos
               IN  /\ pos.m # None /\ pos.d # None
                   /\ \E p \in cand.state.unconverted :
                          /\ \/ pos.m < p /\ p < pos.d
                             \/ pos.d < p /\ p < pos.m
                          /\ isdigit(call[t].raw[p + 1])

\* The number of days of a month under the Gregorian leap rule: years
\* divisible by 4, centuries only if divisible by 400
GregorianLength(year, month) ==
    IF month = 2
    THEN IF (year % 4 = 0) /\ ((year % 100 # 0) \/ (year % 400 = 0)) THEN 29 ELSE 28
    ELSE IF month \in { 4, 6, 9, 11 } THEN 30 ELSE 31

\* The weekday of a date, 0 for Sunday
SundayWeekday(date) == (Weekday(date.year, date.month, date.day) + 1) % 7

\* Inputs that name a weekday, with the date the weekday selects
WeekdaySamples ==
    { << <<"S","u","n"," ","1","3","-","0","5","-","1","8">>, [ year |-> 2018, month |-> 5, day |-> 13 ] >>,
      << <<"M","o","n"," ","1","3","-","0","5","-","1","8">>, [ year |-> 1918, month |-> 5, day |-> 13 ] >> }

\* The date of a candidate is the Gregorian date of its assigned fields
ValidGregorian(cand) ==
    LET v == cand.state.value
        date == cand.value.date
    IN  /\ date.month = v.m /\ date.month \in 1..12
        /\ date.day = v.d /\ date.day \in 1..GregorianLength(date.year, date.month)
        /\ date.year % 100 = v.y
        /\ v.C # None => date.year = v.C * 100 + v.y
        /\ v.a # None =>
               /\ SundayWeekday(date) = v.a
               /\ v.C = None =>
                      \E i \in 1..4 :
                          /\ date.year = <<20, 19, 21, 18>>[i] * 100 + v.y
                          /\ \A j \in 1..(i - 1) :
                                 SundayWeekday([ date EXCEPT !.year = <<20, 19, 21, 18>>[j] * 100 + v.y ]) # v.a

\* C22: every candidate with a date carries a valid Gregorian (year, month,
\* day) of its assigned fields, and a candidate with a weekday assigned has
\* a date of that weekday (0 = Sunday), in the given century or else the
\* first of 20, 19, 21, 18 that matches: Sun 13-05-18 is 2018-05-13 and
\* Mon 13-05-18 is 1918-05-13.
C22_ValidDate ==
    \A t \in Threads :
        /\ \A cand \in Held(t) :
               cand.value.kind \in { "date", "datetime" } => ValidGregorian(cand)
        /\ \A x \in WeekdaySamples :
               (Finished(t) /\ parser.locale_set = TimeLocaleSet(DayArgs) /\ call[t].s = x[1])
               => /\ Returned(t)
                  /\ \E k \in 1..Len(call[t].ret) :
                         /\ call[t].ret[k].state.value.a # None
                         /\ call[t].ret[k].value.date = x[2]

\* The hints of the conversions a complete state of call c has chosen: the
\* position next to the conversion the hint refers to, and its locales
ChosenHints(c, state) ==
    UNION { LET o == x[2]
            IN  (IF o.prefix # NoneSet
                 THEN { [ category |-> x[1], side |-> "prefix", idx |-> o.pos - 1, hint |-> o.prefix[1] ] }
                 ELSE {})
                \cup (IF o.suffix # NoneSet
                      THEN { [ category |-> x[1], side |-> "suffix", idx |-> o.pos + 1, hint |-> o.suffix[1] ] }
                      ELSE {})
          : x \in { y \in UNION { { << g.category, o >> : o \in Range(g.options) } : g \in Range(c.groups) } :
                      /\ state.pos[y[1]] = y[2].pos
                      /\ state.fmts[y[1]] = y[2].fmt } }

\* The hints whose neighbouring position holds no conversion
LiteralHints(c, state) == { h \in ChosenHints(c, state) : h.idx \notin Range(state.pos) }

\* C23: in every candidate a call holds or returns, the score is one for
\* each conversion assigned, plus one for each universal prefix or suffix
\* hint of a chosen conversion whose neighbouring position is left literal,
\* plus the largest number of such hints that name one locale; a hint whose
\* neighbouring position is assigned a conversion adds nothing.
C23_HintsOfLiteralNeighbours ==
    \A t \in Threads : \A cand \in Held(t) :
        LET state == cand.state
            counted == LiteralHints(call[t], state)
            cnt == Deref(state.satisfied, empty_satisfied)
        IN  /\ state.globally_satisfied =
                   Cardinality(Assigned(state)) + Cardinality({ h \in counted : h.hint = {} })
            /\ \A l \in Locales : cnt[l] = Cardinality({ h \in counted : l \in h.hint })
            /\ ~Truthy(state.required_locales) =>
                   score(state, empty_satisfied).quality =
                       state.globally_satisfied
                         + SetMax({ Cardinality({ h \in counted : l \in h.hint }) : l \in Locales })

\* C23 witness: a returned candidate with two universal hints that refer to
\* the same literal position, both counted, and a hint whose neighbouring
\* position is assigned a conversion
C23_Witness ==
    \E t \in Threads :
        /\ Returned(t)
        /\ \E cand \in Range(call[t].ret) :
               /\ \E h1, h2 \in LiteralHints(call[t], cand.state) :
                      h1.idx = h2.idx /\ h1.side = "suffix" /\ h2.side = "prefix"
                        /\ h1.hint = {} /\ h2.hint = {}
               /\ ChosenHints(call[t], cand.state) # LiteralHints(call[t], cand.state)

(***************************************************************************)
(* Termination of the search                                               *)
(***************************************************************************)

\* How many of LiveSamples the calls of SpecLive are made on
NumLive == 8

\* Parsers and inputs whose searches descend, prune, reach complete states
\* with and without a value, return and raise
LiveSamples ==
    << [ args |-> DigitArgs, s |-> <<"1","8"," ","0","5"," ","1","3"," ","0","5">> ],
       [ args |-> NoArgs, s |-> <<"2","1",":","0","4"," ","1","3",":","5","6">> ],
       [ args |-> NoArgs, s |-> <<"2","3",":","5","9",":","6","0">> ],
       [ args |-> NoArgs, s |-> <<"1","2",":","3","0"," ","a","m">> ],
       [ args |-> NoArgs, s |-> <<"2","9","-","0","2","-","6","9">> ],
       [ args |-> NoArgs, s |-> <<"0","5"," ","6","0"," ","1","3"," ","1","8">> ],
       [ args |-> BasqueArgs, s |-> <<"0","5","-","1","3","a","-","1","8">> ],
       [ args |-> NoArgs, s |-> << >> ],
       [ args |-> NoArgs, s |-> <<"2","1"," ","2","0","1","8","-","0","5","-","1","3"," ","0","4">> ],
       [ args |-> DigitArgs, s |-> <<"1","8","0","5","1","3"," ","2","1",":","0","4">> ] >>

\* A parser has been constructed and one thread is about to call parse
InitLive ==
    \E i \in 1..NumLive :
        /\ parser = DateParser(TimeLocaleSet(LiveSamples[i].args))
        /\ empty_satisfied = Counter_empty
        /\ call = [ t \in Threads |-> IF t = "t1" THEN NewCall(LiveSamples[i].s) ELSE Idle ]

\* parse runs its loop until it returns or raises: a call that can take a
\* step takes one
SpecLive == InitLive /\ [][Next]_vars /\ WF_vars(Next)

\* The number of categories a state has still to decide
Remaining(state) == Len(state.remaining_groups)

\* Every child a generator on the stack yields has fewer categories left
\* than its parent, and so has each state of the stack than the one below
ChildrenShrink(t) ==
    LET partials == call[t].partials
    IN  /\ \A k \in 1..Len(partials) :
               /\ Remaining(partials[k].state) >= 1
               /\ \A child \in ChildrenOf(partials[k].state, empty_satisfied) :
                      Remaining(child) < Remaining(partials[k].state)
        /\ \A k \in 1..(Len(partials) - 1) :
               Remaining(partials[k + 1].state) < Remaining(partials[k].state)

\* The stack of partial states is no deeper than the number of non-empty
\* categories, which is at most the number of fields
DepthBounded(t) ==
    /\ Len(call[t].partials) <= Len(call[t].groups)
    /\ Len(call[t].groups) <= Len(Fields)

\* Every call ends: parse returns or an exception leaves it
SearchEnds == <>(\A t \in Threads : call[t].pc \in { "idle", "return", "raise" })

\* A call has ended with generators still on its stack
Abandoned(t) == call[t].pc = "raise" /\ call[t].partials # << >>

\* C24: the search terminates: every child state has strictly fewer
\* remaining categories than its parent, the stack of partial states is
\* never deeper than the number of non-empty categories (at most 10), and
\* every generator on the stack is eventually exhausted and popped, so
\* that every call ends with its stack empty.
C24_SearchTerminates ==
    /\ [](\A t \in Threads : ChildrenShrink(t) /\ DepthBounded(t))
    /\ <>(\A t \in Threads : /\ call[t].pc \in { "idle", "return", "raise" }
                              /\ call[t].partials = << >>)

\* What holds of the search: children shrink, the depth is bounded, every
\* call ends, and a call that returns has popped every generator
SearchBounded ==
    /\ [](\A t \in Threads : ChildrenShrink(t) /\ DepthBounded(t))
    /\ SearchEnds
    /\ [](\A t \in Threads : Returned(t) => call[t].partials = << >>)

\* A search six generators deep whose generator on top is exhausted and
\* about to be popped, candidates already found
DeepExhausted ==
    \E t \in Threads :
        /\ Searching(t)
        /\ Len(call[t].partials) >= 6
        /\ call[t].best_candidates # << >>
        /\ NextYield(Top(t), empty_satisfied) = 0

=============================================================================
